---- MODULE Spec2Model ----
(***************************************************************************)
(* Planet-state model, save-record model and save-slot store of the        *)
(* gaia-engine prototype (src/src/sim/planetState.ts, saveSlots.ts).       *)
(*                                                                         *)
(* JavaScript values are tagged records, so that values of different       *)
(* JavaScript types can be compared:                                       *)
(*   undefined, null, boolean, number, string, array, object, and          *)
(*   [t |-> "throw"] for an exception leaving a function.                  *)
(* Numbers are fixed-point, in units of 1/Milli; k = "big" is a finite     *)
(* number of at least 2^32 (beyond every array length), k = "nonfinite"    *)
(* is NaN or an infinity.                                                  *)
(***************************************************************************)
EXTENDS Integers, Sequences, FiniteSets, TLC

VARIABLES storage, saved, writes, accesses, input, output, pc, P,
          listeners, unsubscribes, subscribed, invoked,
          schedulers, clock, history,
          snapshot, schedulerRef, unsubscribeState, unsubscribeTick, detaches,
          frameId, previousTime, requests, frames

vars ==
  <<storage, saved, writes, accesses, input, output, pc, P,
    listeners, unsubscribes, subscribed, invoked,
    schedulers, clock, history,
    snapshot, schedulerRef, unsubscribeState, unsubscribeTick, detaches,
    frameId, previousTime, requests, frames>>

\* the variables of the slot store
slotVars == <<storage, saved, writes, accesses>>

\* the variable of the noise table
noiseVars == <<P>>

\* the variables of the event bus
busVars == <<listeners, unsubscribes, subscribed, invoked>>

\* a specification without an event bus
BusIdle == listeners = <<>> /\ unsubscribes = {} /\ subscribed = {} /\ invoked = <<>>

\* the variables of the tick schedulers: the schedulers by name, the clock
\* they read, and what the scheduler under observation has done so far
schedulerVars == <<schedulers, clock, history>>

\* a specification without a tick scheduler
SchedulerIdle == schedulers = <<>> /\ clock = 0 /\ history = <<>>

\* the variables of the simulation store: its snapshot, its module-level
\* references, and the detach functions it has handed out
storeVars == <<snapshot, schedulerRef, unsubscribeState, unsubscribeTick, detaches>>

\* a specification without a simulation store
StoreIdle ==
  /\ snapshot = <<>>
  /\ schedulerRef = <<>>
  /\ unsubscribeState = <<>>
  /\ unsubscribeTick = <<>>
  /\ detaches = {}

\* the variables of the render loop: its two locals, the frame requests the
\* window holds, and what has happened to the loop so far
loopVars == <<frameId, previousTime, requests, frames>>

\* a specification without a render loop
LoopIdle == frameId = <<>> /\ previousTime = <<>> /\ requests = {} /\ frames = <<>>

\* the variables the specifications of the planet state, the save record and
\* the slot store leave out
engineVars == <<noiseVars, busVars, schedulerVars, storeVars, loopVars>>

EngineIdle == P = <<>> /\ BusIdle /\ SchedulerIdle /\ StoreIdle /\ LoopIdle

---------------------------------------------------------------------------
(* JavaScript values *)

Milli == 1000

Undef == [t |-> "undefined"]
Null == [t |-> "null"]
Bool(b) == [t |-> "boolean", b |-> b]
M(n) == [t |-> "number", k |-> "fin", n |-> n]
I(i) == M(i * Milli)
Big == [t |-> "number", k |-> "big", n |-> 0]
NonFinite == [t |-> "number", k |-> "nonfinite", n |-> 0]
Str(s) == [t |-> "string", s |-> s]
\* a string that is the JSON text of the document doc
JsonText(doc) == [t |-> "string", json |-> doc]
Arr(a) == [t |-> "array", a |-> a]
Obj(f) == [t |-> "object", f |-> f]
Throw(name, message) == [t |-> "throw", name |-> name, message |-> message]

IsThrow(v) == v.t = "throw"

\* an object literal whose undefined properties are absent
Strip(rec) == [key \in {kk \in DOMAIN rec : rec[kk] # Undef} |-> rec[key]]

\* value.key for an object value
Get(value, key) == IF key \in DOMAIN value.f THEN value.f[key] ELSE Undef

\* key in value
HasKey(value, key) == key \in DOMAIN value.f

\* Math.floor on a finite number
MathFloor(x) == IF x.k = "fin" THEN M((x.n \div Milli) * Milli) ELSE x

\* a < b on finite numbers
NumLT(a, b) ==
  IF a.k = "fin" /\ b.k = "fin" THEN a.n < b.n
  ELSE a.k = "fin" /\ b.k = "big"

MathMax(a, b) == IF NumLT(a, b) THEN b ELSE a

MathMin(a, b) == IF NumLT(b, a) THEN b ELSE a

\* a * b on finite numbers that are positive integers
NumMul(a, b) ==
  IF a.k = "fin" /\ b.k = "fin" THEN M((a.n \div Milli) * b.n) ELSE Big

\* Array.from({ length }) : a length above 2^32 - 1 is a RangeError
ArrayTooLong(length) == length.k # "fin"

IsWhitespace(c) == c \in {" ", "\t", "\n"}

RECURSIVE TrimStart(_)
TrimStart(s) ==
  IF Len(s) > 0 /\ IsWhitespace(SubSeq(s, 1, 1))
  THEN TrimStart(SubSeq(s, 2, Len(s)))
  ELSE s

RECURSIVE TrimEnd(_)
TrimEnd(s) ==
  IF Len(s) > 0 /\ IsWhitespace(SubSeq(s, Len(s), Len(s)))
  THEN TrimEnd(SubSeq(s, 1, Len(s) - 1))
  ELSE s

\* String.prototype.trim
Trim(s) == TrimEnd(TrimStart(s))

\* value.length and value.trim().length of a string value (the text of a JSON
\* document is never empty or blank)
StrLength(value) == IF "s" \in DOMAIN value THEN Len(value.s) ELSE 1

TrimmedLength(value) == IF "s" \in DOMAIN value THEN Len(Trim(value.s)) ELSE 1

\* JSON.stringify's view of a value: a non-finite number becomes null, an
\* undefined property is left out, an undefined array entry becomes null
RECURSIVE ToJson(_)
ToJson(v) ==
  CASE v.t = "number" -> IF v.k = "nonfinite" THEN Null ELSE v
    [] v.t = "array" ->
         Arr([i \in 1..Len(v.a) |-> IF v.a[i] = Undef THEN Null ELSE ToJson(v.a[i])])
    [] v.t = "object" ->
         Obj([key \in {kk \in DOMAIN v.f : v.f[kk] # Undef} |-> ToJson(v.f[key])])
    [] OTHER -> v

JSONStringify(v) == JsonText(ToJson(v))

\* JSON.parse: the text of a document gives the document; of the other
\* strings only the JSON literals parse
JSONParse(text) ==
  IF "json" \in DOMAIN text THEN text.json
  ELSE CASE text.s = "null" -> Null
         [] text.s = "{}" -> Obj(<<>>)
         [] text.s = "true" -> Bool(TRUE)
         [] OTHER -> Throw("SyntaxError", "Unexpected token")

---------------------------------------------------------------------------
(* planetState.ts *)

PLANET_STATE_VERSION == 1

DEFAULT_HEIGHT_FIELD_WIDTH == 64
DEFAULT_HEIGHT_FIELD_HEIGHT == 32
DEFAULT_BIOME_MAP_WIDTH == 64
DEFAULT_BIOME_MAP_HEIGHT == 32

isNumber(value) == value.t = "number" /\ value.k # "nonfinite"

isString(value) == value.t = "string"

isRecord(value) == value.t = "object"

ensureNumber(value, fallback) == IF isNumber(value) THEN value ELSE fallback

\* the number kept as it is, without Math.floor
ensurePositiveInteger_NoFloor(value, fallback, minimum) ==
  IF ~isNumber(value) THEN fallback
  ELSE IF NumLT(value, minimum) THEN fallback ELSE value

ensurePositiveInteger(value, fallback, minimum) ==
  IF ~isNumber(value) THEN fallback
  ELSE LET rounded == MathFloor(value)
       IN IF NumLT(rounded, minimum) THEN fallback ELSE rounded

\* a test that takes a blank string for a string
ensureString_NoTrim(value, fallback) ==
  IF isString(value) /\ StrLength(value) > 0 THEN value ELSE fallback

ensureString(value, fallback) ==
  IF isString(value) /\ TrimmedLength(value) > 0 THEN value ELSE fallback

clampRange(value, lo, hi) ==
  IF ~isNumber(value) THEN I(0)
  ELSE IF NumLT(value, lo) THEN lo
  ELSE IF NumLT(hi, value) THEN hi
  ELSE value

\* a clamp that lets every number above 0 through
clamp01_NoUpperBound(value) ==
  IF ~isNumber(value) THEN I(0) ELSE IF NumLT(value, I(0)) THEN I(0) ELSE value

clamp01(value) == clampRange(value, I(0), I(1))

clampPercentage(value) == clampRange(value, I(0), I(100))

clampLatitude(value) == clampRange(value, I(-90), I(90))

clampLongitude(value) == clampRange(value, I(-180), I(180))

\* length is a number; a length Array.from cannot build throws
padArray(length) ==
  IF ArrayTooLong(length) THEN Throw("RangeError", "Invalid array length")
  ELSE Arr([i \in 1..(length.n \div Milli) |-> I(0)])

OceanCell == Obj([biome |-> Str("ocean"), biodiversity |-> I(0)])

padBiomeCells(length) ==
  IF ArrayTooLong(length) THEN Throw("RangeError", "Invalid array length")
  ELSE Arr([i \in 1..(length.n \div Milli) |-> OceanCell])

Gas(name, percentage) == Obj([gas |-> Str(name), percentage |-> percentage])

createDefaultAtmosphereState ==
  Obj([gases |-> Arr(<<Gas("nitrogen", I(78)), Gas("oxygen", I(21)),
                       Gas("argon", M(900)), Gas("carbon-dioxide", M(40))>>),
       surfacePressureKPa |-> M(101325),
       greenhouseCoefficient |-> M(300)])

createDefaultHeightFieldState ==
  Obj([width |-> I(DEFAULT_HEIGHT_FIELD_WIDTH),
       height |-> I(DEFAULT_HEIGHT_FIELD_HEIGHT),
       unit |-> Str("meters"),
       values |-> padArray(I(DEFAULT_HEIGHT_FIELD_WIDTH * DEFAULT_HEIGHT_FIELD_HEIGHT))])

createDefaultTectonicPlates == Arr(<<>>)

createDefaultGeologyState ==
  Obj([plates |-> createDefaultTectonicPlates,
       heightField |-> createDefaultHeightFieldState,
       volcanismIndex |-> I(0)])

createDefaultRiverNetworkState == Obj([seed |-> Null, systems |-> Arr(<<>>)])

createDefaultIceCapsState ==
  Obj([northCoverageFraction |-> M(50), southCoverageFraction |-> M(40)])

createDefaultHydrologyState ==
  Obj([oceanCoverage |-> M(720),
       rivers |-> createDefaultRiverNetworkState,
       iceCaps |-> createDefaultIceCapsState])

createDefaultBiomeMapState ==
  Obj([width |-> I(DEFAULT_BIOME_MAP_WIDTH),
       height |-> I(DEFAULT_BIOME_MAP_HEIGHT),
       cells |-> padBiomeCells(I(DEFAULT_BIOME_MAP_WIDTH * DEFAULT_BIOME_MAP_HEIGHT))])

createDefaultBiosphereState ==
  Obj([biomeMap |-> createDefaultBiomeMapState, biodiversityIndex |-> M(100)])

createDefaultCivilizationState ==
  Obj([populations |-> Arr(<<>>), techLevel |-> Str("none"), pollutionIndex |-> I(0)])

createDefaultClimateState ==
  Obj([axialTiltDegrees |-> M(23500),
       albedo |-> M(300),
       greenhouseMultiplier |-> I(1),
       currentTime |-> I(0),
       yearLength |-> I(365)])

createDefaultPlanetState ==
  Obj([version |-> I(PLANET_STATE_VERSION),
       atmosphere |-> createDefaultAtmosphereState,
       geology |-> createDefaultGeologyState,
       hydrology |-> createDefaultHydrologyState,
       biosphere |-> createDefaultBiosphereState,
       civilization |-> createDefaultCivilizationState,
       climate |-> createDefaultClimateState])

\* .filter(Boolean) after .map(normalize): the normalizers return null to drop
FilterBoolean(mapped) == SelectSeq(mapped, LAMBDA e : e # Null)

\* a slice that keeps everything
SliceTo_KeepsAll(array, length) == array

\* array.slice(0, length)
SliceTo(array, length) ==
  IF length.k = "fin" /\ length.n \div Milli < Len(array)
  THEN SubSeq(array, 1, length.n \div Milli)
  ELSE array

\* expectedLength - values.length, as a number
Missing(expectedLength, have) ==
  IF expectedLength.k = "fin" THEN M(expectedLength.n - have * Milli) ELSE expectedLength

normalizeAtmosphericGas(value) ==
  IF ~isRecord(value) THEN Null
  ELSE LET gas == ensureString(Get(value, "gas"), Str(""))
           percentage == Get(value, "percentage")
       IN IF StrLength(gas) = 0 THEN Null
          ELSE IF ~isNumber(percentage) THEN Null
          ELSE Obj([gas |-> gas, percentage |-> clampPercentage(percentage)])

normalizeAtmosphere(value) ==
  LET defaults == createDefaultAtmosphereState
  IN IF ~isRecord(value) THEN defaults
     ELSE LET gasesRaw == IF Get(value, "gases").t = "array" THEN Get(value, "gases") ELSE Null
              gases == IF gasesRaw = Null THEN Undef
                       ELSE Arr(FilterBoolean([i \in 1..Len(gasesRaw.a) |->
                                 normalizeAtmosphericGas(gasesRaw.a[i])]))
          IN Obj([gases |-> IF gases # Undef /\ Len(gases.a) > 0 THEN gases
                            ELSE Get(defaults, "gases"),
                  surfacePressureKPa |->
                    ensureNumber(Get(value, "surfacePressureKPa"), Get(defaults, "surfacePressureKPa")),
                  greenhouseCoefficient |->
                    ensureNumber(Get(value, "greenhouseCoefficient"), Get(defaults, "greenhouseCoefficient"))])

normalizeTectonicPlate(value) ==
  IF ~isRecord(value) THEN Null
  ELSE LET id == ensureString(Get(value, "id"), Str(""))
       IN IF StrLength(id) = 0 THEN Null
          ELSE Obj([id |-> id,
                    name |-> ensureString(Get(value, "name"), id),
                    type |-> IF Get(value, "type") = Str("oceanic") THEN Str("oceanic")
                             ELSE Str("continental"),
                    areaFraction |-> clamp01(ensureNumber(Get(value, "areaFraction"), I(0))),
                    driftRateCmPerYear |-> ensureNumber(Get(value, "driftRateCmPerYear"), I(0))])

\* values.slice(0, expectedLength), then push(...pad(expectedLength - length))
\* when too short: the array, or what the padding throws
fillGrid(entries, expectedLength, ofCells) ==
  LET kept == SliceTo(entries, expectedLength)
  IN IF NumLT(I(Len(kept)), expectedLength)
     THEN LET padding == IF ofCells THEN padBiomeCells(Missing(expectedLength, Len(kept)))
                         ELSE padArray(Missing(expectedLength, Len(kept)))
          IN IF IsThrow(padding) THEN padding ELSE Arr(kept \o padding.a)
     ELSE Arr(kept)

heightFieldOf(width, height, values) ==
  IF IsThrow(values) THEN values
  ELSE Obj([width |-> width, height |-> height, unit |-> Str("meters"), values |-> values])

heightFieldGrid(width, height, valuesRaw) ==
  heightFieldOf(width, height,
                fillGrid([i \in 1..Len(valuesRaw) |-> ensureNumber(valuesRaw[i], I(0))],
                         NumMul(width, height), FALSE))

normalizeHeightField(value) ==
  IF ~isRecord(value) THEN createDefaultHeightFieldState
  ELSE heightFieldGrid(
         ensurePositiveInteger(Get(value, "width"), I(DEFAULT_HEIGHT_FIELD_WIDTH), I(1)),
         ensurePositiveInteger(Get(value, "height"), I(DEFAULT_HEIGHT_FIELD_HEIGHT), I(1)),
         IF Get(value, "values").t = "array" THEN Get(value, "values").a ELSE <<>>)

geologyOf(plates, heightField, volcanismIndex) ==
  IF IsThrow(heightField) THEN heightField
  ELSE Obj([plates |-> plates, heightField |-> heightField, volcanismIndex |-> volcanismIndex])

normalizeGeology(value) ==
  IF ~isRecord(value) THEN createDefaultGeologyState
  ELSE geologyOf(
         IF Get(value, "plates").t = "array"
         THEN Arr(FilterBoolean([i \in 1..Len(Get(value, "plates").a) |->
                               normalizeTectonicPlate(Get(value, "plates").a[i])]))
         ELSE createDefaultTectonicPlates,
         normalizeHeightField(Get(value, "heightField")),
         clamp01(ensureNumber(Get(value, "volcanismIndex"), I(0))))

\* latitude and longitude read from each other's property
normalizeCoordinates_Swapped(value) ==
  IF ~isRecord(value) THEN Obj([latitude |-> I(0), longitude |-> I(0)])
  ELSE Obj([latitude |-> clampLatitude(ensureNumber(Get(value, "longitude"), I(0))),
            longitude |-> clampLongitude(ensureNumber(Get(value, "latitude"), I(0)))])

normalizeCoordinates(value) ==
  IF ~isRecord(value) THEN Obj([latitude |-> I(0), longitude |-> I(0)])
  ELSE Obj([latitude |-> clampLatitude(ensureNumber(Get(value, "latitude"), I(0))),
            longitude |-> clampLongitude(ensureNumber(Get(value, "longitude"), I(0)))])

normalizeRiverSystem(value) ==
  IF ~isRecord(value) THEN Null
  ELSE LET id == ensureString(Get(value, "id"), Str(""))
       IN IF StrLength(id) = 0 THEN Null
          ELSE Obj([id |-> id,
                    name |-> ensureString(Get(value, "name"), id),
                    lengthKm |-> ensureNumber(Get(value, "lengthKm"), I(0)),
                    source |-> normalizeCoordinates(Get(value, "source")),
                    mouth |-> normalizeCoordinates(Get(value, "mouth"))])

normalizeRiverNetwork(value) ==
  LET defaults == createDefaultRiverNetworkState
  IN IF ~isRecord(value) THEN defaults
     ELSE LET systemsRaw == Get(value, "systems")
          IN Obj([seed |-> IF isNumber(Get(value, "seed")) THEN Get(value, "seed")
                           ELSE Get(defaults, "seed"),
                  systems |-> IF systemsRaw.t = "array"
                              THEN Arr(FilterBoolean([i \in 1..Len(systemsRaw.a) |->
                                     normalizeRiverSystem(systemsRaw.a[i])]))
                              ELSE Get(defaults, "systems")])

normalizeIceCaps(value) ==
  LET defaults == createDefaultIceCapsState
  IN IF ~isRecord(value) THEN defaults
     ELSE Obj([northCoverageFraction |->
                 clamp01(ensureNumber(Get(value, "northCoverageFraction"),
                                      Get(defaults, "northCoverageFraction"))),
               southCoverageFraction |->
                 clamp01(ensureNumber(Get(value, "southCoverageFraction"),
                                      Get(defaults, "southCoverageFraction")))])

normalizeHydrology(value) ==
  LET defaults == createDefaultHydrologyState
  IN IF ~isRecord(value) THEN defaults
     ELSE Obj([oceanCoverage |->
                 clamp01(ensureNumber(Get(value, "oceanCoverage"), Get(defaults, "oceanCoverage"))),
               rivers |-> normalizeRiverNetwork(Get(value, "rivers")),
               iceCaps |-> normalizeIceCaps(Get(value, "iceCaps"))])

normalizeBiomeCell(value) ==
  IF ~isRecord(value) THEN Null
  ELSE LET biome == ensureString(Get(value, "biome"), Str(""))
       IN IF StrLength(biome) = 0 THEN Null
          ELSE Obj([biome |-> biome,
                    biodiversity |-> clamp01(ensureNumber(Get(value, "biodiversity"), I(0)))])

biomeMapOf(width, height, cells) ==
  IF IsThrow(cells) THEN cells
  ELSE Obj([width |-> width, height |-> height, cells |-> cells])

biomeMapGrid(width, height, rawCells) ==
  biomeMapOf(width, height,
             fillGrid(FilterBoolean([i \in 1..Len(rawCells) |-> normalizeBiomeCell(rawCells[i])]),
                      NumMul(width, height),
                      TRUE))

normalizeBiomeMap(value) ==
  IF ~isRecord(value) THEN createDefaultBiomeMapState
  ELSE biomeMapGrid(
         ensurePositiveInteger(Get(value, "width"), I(DEFAULT_BIOME_MAP_WIDTH), I(1)),
         ensurePositiveInteger(Get(value, "height"), I(DEFAULT_BIOME_MAP_HEIGHT), I(1)),
         IF Get(value, "cells").t = "array" THEN Get(value, "cells").a ELSE <<>>)

biosphereOf(biomeMap, biodiversityIndex) ==
  IF IsThrow(biomeMap) THEN biomeMap
  ELSE Obj([biomeMap |-> biomeMap, biodiversityIndex |-> biodiversityIndex])

normalizeBiosphere(value) ==
  IF ~isRecord(value) THEN createDefaultBiosphereState
  ELSE biosphereOf(
         normalizeBiomeMap(Get(value, "biomeMap")),
         clamp01(ensureNumber(Get(value, "biodiversityIndex"),
                              Get(createDefaultBiosphereState, "biodiversityIndex"))))

normalizePopulationCenter(value) ==
  IF ~isRecord(value) THEN Null
  ELSE LET id == ensureString(Get(value, "id"), Str(""))
           kind == Get(value, "kind")
       IN IF StrLength(id) = 0 THEN Null
          ELSE Obj([id |-> id,
                    name |-> ensureString(Get(value, "name"), id),
                    kind |-> IF kind = Str("settlement") \/ kind = Str("city") THEN kind
                             ELSE Str("outpost"),
                    population |-> MathMax(I(0), ensureNumber(Get(value, "population"), I(0))),
                    coordinates |-> normalizeCoordinates(Get(value, "coordinates"))])

TechLevels == {"tribal", "agrarian", "industrial", "digital", "spacefaring"}

normalizeCivilization(value) ==
  LET defaults == createDefaultCivilizationState
  IN IF ~isRecord(value) THEN defaults
     ELSE LET populationsRaw == Get(value, "populations")
              techLevel == Get(value, "techLevel")
          IN Obj([populations |-> IF populationsRaw.t = "array"
                                  THEN Arr(FilterBoolean([i \in 1..Len(populationsRaw.a) |->
                                     normalizePopulationCenter(populationsRaw.a[i])]))
                                  ELSE Get(defaults, "populations"),
                  techLevel |-> IF \E level \in TechLevels : techLevel = Str(level)
                                THEN techLevel ELSE Str("none"),
                  pollutionIndex |->
                    clamp01(ensureNumber(Get(value, "pollutionIndex"),
                                         Get(defaults, "pollutionIndex")))])

normalizeClimate(value) ==
  LET defaults == createDefaultClimateState
  IN IF ~isRecord(value) THEN defaults
     ELSE Obj([axialTiltDegrees |->
                 MathMin(MathMax(ensureNumber(Get(value, "axialTiltDegrees"),
                                              Get(defaults, "axialTiltDegrees")), I(0)), I(90)),
               albedo |-> clamp01(ensureNumber(Get(value, "albedo"), Get(defaults, "albedo"))),
               greenhouseMultiplier |->
                 MathMax(I(0), ensureNumber(Get(value, "greenhouseMultiplier"),
                                            Get(defaults, "greenhouseMultiplier"))),
               currentTime |->
                 MathMax(I(0), ensureNumber(Get(value, "currentTime"), Get(defaults, "currentTime"))),
               yearLength |->
                 MathMax(I(1), ensureNumber(Get(value, "yearLength"), Get(defaults, "yearLength")))])

\* the state, or what normalizing the geology or the biosphere throws
planetStateOf(atmosphere, geology, hydrology, biosphere, civilization, climate) ==
  IF IsThrow(geology) THEN geology
  ELSE IF IsThrow(biosphere) THEN biosphere
  ELSE Obj([version |-> I(PLANET_STATE_VERSION),
            atmosphere |-> atmosphere,
            geology |-> geology,
            hydrology |-> hydrology,
            biosphere |-> biosphere,
            civilization |-> civilization,
            climate |-> climate])

normalizePlanetStateV1(value) ==
  planetStateOf(normalizeAtmosphere(Get(value, "atmosphere")),
                normalizeGeology(Get(value, "geology")),
                normalizeHydrology(Get(value, "hydrology")),
                normalizeBiosphere(Get(value, "biosphere")),
                normalizeCivilization(Get(value, "civilization")),
                normalizeClimate(Get(value, "climate")))

\* the versions PLANET_STATE_NORMALIZERS has a normalizer for
PLANET_STATE_NORMALIZERS == {I(PLANET_STATE_VERSION)}

\* an unknown version handed to the current normalizer
migratePlanetState_Lenient(value) ==
  IF ~isRecord(value) THEN createDefaultPlanetState ELSE normalizePlanetStateV1(value)

migratePlanetState(value) ==
  IF ~isRecord(value) THEN createDefaultPlanetState
  ELSE LET version == ensurePositiveInteger(Get(value, "version"), I(PLANET_STATE_VERSION), I(1))
       IN IF version \notin PLANET_STATE_NORMALIZERS
          THEN Throw("Error", "Unsupported planet state version")
          ELSE normalizePlanetStateV1(value)

serializePlanetState(state) == JSONStringify(state)

\* migratePlanetState, unless JSON.parse threw
migrateParsed(parsed) == IF IsThrow(parsed) THEN parsed ELSE migratePlanetState(parsed)

deserializePlanetState(payload) ==
  migrateParsed(IF payload.t = "string" THEN JSONParse(payload) ELSE payload)

---------------------------------------------------------------------------
(* saveSlots.ts: the save record *)

PLANET_SAVE_FORMAT_VERSION == 1

SAVE_SLOT_COUNT == 3

SAVE_SLOT_KEY_PREFIX == "planet-save-slot-"

MAX_LABEL_LENGTH == 64

\* Instants are milliseconds after 1970-01-01T00:00:00.000Z, within the
\* first second, so that an instant's ISO string differs in its
\* milliseconds only.
Pad3(n) ==
  IF n < 10 THEN "00" \o ToString(n) ELSE IF n < 100 THEN "0" \o ToString(n) ELSE ToString(n)

\* new Date(ms).toISOString()
toISOString(ms) == "1970-01-01T00:00:00." \o Pad3(ms) \o "Z"

DigitOf(c) ==
  CASE c = "0" -> 0 [] c = "1" -> 1 [] c = "2" -> 2 [] c = "3" -> 3 [] c = "4" -> 4
    [] c = "5" -> 5 [] c = "6" -> 6 [] c = "7" -> 7 [] c = "8" -> 8 [] c = "9" -> 9
    [] OTHER -> -1

\* Date.parse of a string: the timestamp as a number, or NaN
DateParse(s) ==
  IF /\ Len(s) = 24
     /\ SubSeq(s, 1, 20) = "1970-01-01T00:00:00."
     /\ SubSeq(s, 24, 24) = "Z"
     /\ \A i \in 21..23 : DigitOf(SubSeq(s, i, i)) >= 0
  THEN I(100 * DigitOf(SubSeq(s, 21, 21)) + 10 * DigitOf(SubSeq(s, 22, 22))
         + DigitOf(SubSeq(s, 23, 23)))
  ELSE IF s \in {"1970-01-01", "1970-01-01T00:00:00Z", "1970-01-01T00:00Z"} THEN I(0)
  ELSE IF s = "1970-01-01T00:00:00.5Z" THEN I(500)
  ELSE NonFinite

\* the timestamp of a string value
DateParseValue(value) == IF "s" \in DOMAIN value THEN DateParse(value.s) ELSE NonFinite

ISO_EPOCH == Str(toISOString(0))

save_ensureString(value, fallback) ==
  IF isString(value) /\ TrimmedLength(value) > 0
  THEN (IF "s" \in DOMAIN value THEN Str(Trim(value.s)) ELSE value)
  ELSE fallback

\* the number kept as it is, without Math.floor
save_ensurePositiveInteger_NoFloor(value) ==
  IF value.t # "number" \/ value.k = "nonfinite" THEN Null
  ELSE IF NumLT(I(0), value) THEN value ELSE Null

\* null stands for "no version"
save_ensurePositiveInteger(value) ==
  IF value.t # "number" \/ value.k = "nonfinite" THEN Null
  ELSE LET rounded == MathFloor(value)
       IN IF NumLT(I(0), rounded) THEN rounded ELSE Null

\* the upper end of the range left unchecked
ensureSlotIndex_NoUpperBound(value) ==
  IF value.t # "number" \/ value.k # "fin" THEN Null
  ELSE IF NumLT(MathFloor(value), I(0)) THEN Null ELSE MathFloor(value)

ensureSlotIndex(value) ==
  IF value.t # "number" \/ value.k = "nonfinite" THEN Null
  ELSE LET rounded == MathFloor(value)
       IN IF NumLT(rounded, I(0)) \/ ~NumLT(rounded, I(SAVE_SLOT_COUNT)) THEN Null
          ELSE rounded

ensureISODate(value, fallback) ==
  IF isString(value) /\ DateParseValue(value).k # "nonfinite"
  THEN Str(toISOString(DateParseValue(value).n \div Milli))
  ELSE fallback

sanitizeLabel(value, fallback) ==
  LET label == save_ensureString(value, fallback)
  IN IF StrLength(label) > MAX_LABEL_LENGTH
     THEN Str(SubSeq(label.s, 1, MAX_LABEL_LENGTH))
     ELSE label

\* slot is a number holding an integer
defaultSlotLabel(slot) == Str("Slot " \o ToString((slot.n \div Milli) + 1))

\* one key for all the slots
getSlotKey_Shared(slot) == SAVE_SLOT_KEY_PREFIX

getSlotKey(slot) == SAVE_SLOT_KEY_PREFIX \o ToString(slot.n \div Milli)

\* error messages are the source's without the values it puts into them
Corrupted(message) == Throw("PlanetSaveCorruptedError", message)

\* the metadata of a save whose slot is slot
normalizeMetadata(metadataRaw, slot, createdAt, updatedCandidate) ==
  Obj([slot |-> slot,
       label |-> sanitizeLabel(Get(metadataRaw, "label"), defaultSlotLabel(slot)),
       createdAt |-> createdAt,
       updatedAt |->
         IF DateParseValue(updatedCandidate).k = "nonfinite"
              \/ NumLT(DateParseValue(updatedCandidate), DateParseValue(createdAt))
         THEN createdAt
         ELSE Str(toISOString(DateParseValue(updatedCandidate).n \div Milli))])

\* what deserializePlanetState threw passed on as it is
planetSaveOf_Rethrow(metadata, planetState) ==
  IF IsThrow(planetState) THEN planetState
  ELSE Obj([formatVersion |-> I(PLANET_SAVE_FORMAT_VERSION),
            metadata |-> metadata,
            planetStateVersion |-> Get(planetState, "version"),
            planetState |-> planetState])

\* the record, or PlanetSaveIncompatibleError when deserializePlanetState threw
planetSaveOf(metadata, planetState) ==
  IF IsThrow(planetState) THEN Throw("PlanetSaveIncompatibleError", planetState.message)
  ELSE Obj([formatVersion |-> I(PLANET_SAVE_FORMAT_VERSION),
            metadata |-> metadata,
            planetStateVersion |-> Get(planetState, "version"),
            planetState |-> planetState])

\* normalizePlanetSaveV1 from the metadata checks on
normalizeSlotted(payload, metadataRaw, slotFromPayload, expectedSlot, createdAt, versionRaw) ==
  IF slotFromPayload = Null
  THEN (IF expectedSlot.t = "number" THEN Corrupted("Save metadata slot is invalid")
        ELSE Corrupted("Save metadata slot is missing"))
  ELSE IF expectedSlot.t = "number" /\ slotFromPayload # expectedSlot
  THEN Corrupted("Save metadata slot does not match expected slot")
  ELSE IF ~HasKey(payload, "planetStateVersion")
  THEN Corrupted("Save payload is missing the planet state version")
  ELSE IF versionRaw = Null
  THEN Corrupted("Save payload includes an invalid planet state version")
  ELSE IF NumLT(I(PLANET_STATE_VERSION), versionRaw)
  THEN Throw("PlanetSaveIncompatibleError", "Planet state version is newer than supported")
  ELSE IF ~HasKey(payload, "planetState")
  THEN Corrupted("Save payload is missing the planet state data")
  ELSE planetSaveOf(
         normalizeMetadata(metadataRaw, slotFromPayload, createdAt,
                           ensureISODate(Get(metadataRaw, "updatedAt"), createdAt)),
         deserializePlanetState(Get(payload, "planetState")))

normalizePlanetSaveV1(payload, options) ==
  IF ~isRecord(Get(payload, "metadata")) THEN Corrupted("Save metadata is missing or invalid")
  ELSE normalizeSlotted(payload, Get(payload, "metadata"),
                        ensureSlotIndex(Get(Get(payload, "metadata"), "slot")),
                        options.expectedSlot,
                        ensureISODate(Get(Get(payload, "metadata"), "createdAt"), ISO_EPOCH),
                        save_ensurePositiveInteger(Get(payload, "planetStateVersion")))

\* the format versions PLANET_SAVE_NORMALIZERS has a normalizer for
PLANET_SAVE_NORMALIZERS == {I(PLANET_SAVE_FORMAT_VERSION)}

\* parseSavePayload after JSON.parse
normalizeParsed(raw, options) ==
  IF IsThrow(raw) THEN Corrupted("Save payload is not valid JSON")
  ELSE IF ~isRecord(raw) THEN Corrupted("Save payload must be an object")
  ELSE IF ~HasKey(raw, "version") THEN Corrupted("Save payload is missing the format version")
  ELSE IF save_ensurePositiveInteger(Get(raw, "version")) = Null
  THEN Corrupted("Save payload has an invalid format version")
  ELSE IF save_ensurePositiveInteger(Get(raw, "version")) \notin PLANET_SAVE_NORMALIZERS
  THEN Throw("PlanetSaveUnsupportedVersionError", "Unsupported save format version")
  ELSE normalizePlanetSaveV1(raw, options)

parseSavePayload(payload, options) ==
  normalizeParsed(IF payload.t = "string" THEN JSONParse(payload) ELSE payload, options)

buildSerializedSavePayload(planetState, metadata) ==
  Obj([version |-> I(PLANET_SAVE_FORMAT_VERSION),
       metadata |-> metadata,
       planetStateVersion |-> Get(planetState, "version"),
       planetState |-> planetState])

serializePlanetSave(planetState, metadata) ==
  JSONStringify(buildSerializedSavePayload(planetState, metadata))

deserializePlanetSave(payload, options) == parseSavePayload(payload, options)

---------------------------------------------------------------------------
(* The inputs given to deserializePlanetState *)

\* the longest array an input carries
MaxEntries == 3

Window(pattern, start, len) ==
  [i \in 1..len |-> pattern[((start + i - 2) % Len(pattern)) + 1]]

Windows(pattern, starts) ==
  {Arr(Window(pattern, start, len)) : start \in starts, len \in 0..MaxEntries}

NonObjects == {Undef, Null, I(7), Str("oops"), Arr(<<>>), Bool(TRUE)}

GasPattern ==
  <<Gas("nitrogen", I(70)), Gas("", I(99)), Gas("valid", Str("not-a-number")),
    Gas("  ", I(3)), Gas("methane", I(150)), Null, Gas(" padded ", M(-400))>>

AtmosphereInputs ==
  NonObjects \cup
  {Obj(Strip([gases |-> g, surfacePressureKPa |-> pc2[1], greenhouseCoefficient |-> pc2[2]])) :
     g \in {Undef, Str("air")} \cup Windows(GasPattern, {1, 2, 4, 5}),
     pc2 \in {<<Undef, Undef>>, <<M(98200), M(420)>>, <<Str("invalid"), NonFinite>>,
              <<Big, M(-5000)>>}}

Plate(id, name, type, areaFraction, driftRate) ==
  Obj(Strip([id |-> id, name |-> name, type |-> type, areaFraction |-> areaFraction,
             driftRateCmPerYear |-> driftRate]))

PlatePattern ==
  <<Plate(Str("plate-alpha"), Str("Plate Alpha"), Str("continental"), M(310), M(2300)),
    Plate(Str(""), Str("Nameless"), Str("oceanic"), M(500), I(1)),
    Plate(Str("plate-beta"), Str(" "), Str("oceanic"), I(5), Str("fast")),
    Plate(Undef, Str("No Id"), Undef, Undef, Undef),
    Plate(Str("p3"), Undef, Str("gaseous"), M(-200), NonFinite),
    Str("not-a-plate")>>

ValuePattern == <<I(120), Str("bad"), M(-30500), NonFinite, Null, Big, I(88)>>

WidthInputs == {Undef, I(0), I(1), I(2), M(2500), Str("2"), Big}

HeightInputs == {Undef, I(1), I(2), Big}

HeightFieldInputs ==
  NonObjects \cup
  {Obj(Strip([width |-> w, height |-> h, unit |-> Str("feet"), values |-> v])) :
     w \in WidthInputs, h \in HeightInputs,
     v \in {Undef, Str("values")} \cup Windows(ValuePattern, {1, 2, 6})}

SmallHeightField ==
  Obj([width |-> I(2), height |-> I(1), unit |-> Str("meters"),
       values |-> Arr(<<I(120), M(-30500)>>)])

GeologyInputs ==
  NonObjects \cup
  {Obj(Strip([plates |-> Undef, heightField |-> hf, volcanismIndex |-> M(560)])) :
     hf \in HeightFieldInputs} \cup
  {Obj(Strip([plates |-> p, heightField |-> SmallHeightField, volcanismIndex |-> v])) :
     p \in {Null} \cup Windows(PlatePattern, {1, 2, 3, 4}),
     v \in {Undef, I(3), M(-100), Str("high")}}

Coordinates(latitude, longitude) ==
  Obj(Strip([latitude |-> latitude, longitude |-> longitude]))

River(id, name, lengthKm, source, mouth) ==
  Obj(Strip([id |-> id, name |-> name, lengthKm |-> lengthKm, source |-> source,
             mouth |-> mouth]))

RiverPattern ==
  <<River(Str("river-1"), Str("Great River"), I(780), Coordinates(I(30), I(-120)),
          Coordinates(I(12), I(-100))),
    River(Str(""), Str("Nameless"), I(-10), Coordinates(I(-400), I(800)), Obj(<<>>)),
    River(Str("river-2"), Undef, Str("long"), Coordinates(Big, NonFinite), Null),
    Null,
    River(Str("  "), Str("Blank"), I(1), Undef, Undef)>>

RiverNetworkInputs ==
  {Undef, Null, Str("rivers")} \cup
  {Obj(Strip([seed |-> s, systems |-> sys])) :
     s \in {Undef, Null, I(42), NonFinite, Str("42")},
     sys \in {Undef, Str("none")} \cup Windows(RiverPattern, {1, 2, 3})}

IceCapsInputs ==
  {Undef, Null, Arr(<<>>),
   Obj([northCoverageFraction |-> M(140), southCoverageFraction |-> M(80)]),
   Obj([northCoverageFraction |-> I(2), southCoverageFraction |-> I(-1)]),
   Obj([northCoverageFraction |-> Str("x")])}

HydrologyInputs ==
  NonObjects \cup
  {Obj(Strip([oceanCoverage |-> o, rivers |-> r, iceCaps |-> Undef])) :
     o \in {Undef, M(630)}, r \in RiverNetworkInputs} \cup
  {Obj(Strip([oceanCoverage |-> o, rivers |-> Undef, iceCaps |-> c])) :
     o \in {M(1700), I(-3), Str("wet"), NonFinite, Big}, c \in IceCapsInputs}

Cell(biome, biodiversity) == Obj(Strip([biome |-> biome, biodiversity |-> biodiversity]))

CellPattern ==
  <<Cell(Str("forest"), M(800)), Cell(Str(""), I(5)), Cell(Str("savanna"), I(5)),
    Null, Cell(Str("tundra"), Str("low")), Cell(Undef, M(300)), Cell(Str(" "), M(-300))>>

BiomeMapInputs ==
  NonObjects \cup
  {Obj(Strip([width |-> w, height |-> h, cells |-> c])) :
     w \in WidthInputs, h \in HeightInputs,
     c \in {Undef, Str("cells")} \cup Windows(CellPattern, {1, 2, 5})}

BiosphereInputs ==
  NonObjects \cup
  {Obj(Strip([biomeMap |-> m, biodiversityIndex |-> b])) :
     m \in BiomeMapInputs, b \in {M(520)}} \cup
  {Obj(Strip([biomeMap |-> Obj([width |-> I(1), height |-> I(1),
                                cells |-> Arr(<<Cell(Str(""), I(5))>>)]),
              biodiversityIndex |-> b])) :
     b \in {Undef, I(-2), I(4), Str("rich"), NonFinite}}

Population(id, name, population, kind, coordinates) ==
  Obj(Strip([id |-> id, name |-> name, population |-> population, kind |-> kind,
             coordinates |-> coordinates]))

PopulationPattern ==
  <<Population(Str("pop-1"), Str("New Horizon"), I(125000), Str("city"),
               Coordinates(M(14200), M(48600))),
    Population(Str(""), Str("Ghost City"), I(-100), Str("galactic"),
               Coordinates(I(200), I(-500))),
    Population(Str("pop-2"), Str(""), I(-100), Str("galactic"), Coordinates(I(200), I(-500))),
    Population(Undef, Undef, Undef, Undef, Undef),
    Population(Str("pop-3"), Undef, Big, Str("settlement"), Str("north")),
    Bool(FALSE)>>

CivilizationInputs ==
  NonObjects \cup
  {Obj(Strip([populations |-> p, techLevel |-> tp[1], pollutionIndex |-> tp[2]])) :
     p \in {Undef, Obj(<<>>)} \cup Windows(PopulationPattern, {1, 2, 3, 5}),
     tp \in {<<Undef, Undef>>, <<Str("industrial"), M(370)>>, <<Str("galactic"), I(4)>>,
             <<Str("none"), M(-1)>>, <<I(3), Str("dirty")>>, <<Str("spacefaring"), Big>>}}

ClimateInputs ==
  NonObjects \cup
  {Obj(Strip([axialTiltDegrees |-> a[1], albedo |-> a[2], greenhouseMultiplier |-> g[1],
              currentTime |-> g[2], yearLength |-> g[3]])) :
     a \in {<<Undef, Undef>>, <<M(28700), M(250)>>, <<I(120), I(5)>>, <<I(-10), M(-250)>>,
            <<Str("tilted"), NonFinite>>, <<Big, Big>>},
     g \in {<<Undef, Undef, Undef>>, <<M(1300), I(150), I(400)>>, <<I(-1), I(-150), I(0)>>,
            <<Big, Str("now"), M(500)>>, <<NonFinite, NonFinite, NonFinite>>}}

VersionInputs ==
  {Undef, Null, Str("1"), NonFinite, Bool(TRUE), I(PLANET_STATE_VERSION),
   I(PLANET_STATE_VERSION + 1), I(PLANET_STATE_VERSION + 2), I(0), I(-1), M(1500), M(500),
   M(2500), Big}

Planet(version, atmosphere, geology, hydrology, biosphere, civilization, climate) ==
  Obj(Strip([version |-> version, atmosphere |-> atmosphere, geology |-> geology,
             hydrology |-> hydrology, biosphere |-> biosphere,
             civilization |-> civilization, climate |-> climate]))

\* what the other sections hold while one section is varied: nothing, or the
\* sections of a hand-written state
Backgrounds ==
  {[atmosphere |-> Undef, geology |-> Undef, hydrology |-> Undef, biosphere |-> Undef,
    civilization |-> Undef, climate |-> Undef],
   [atmosphere |->
      Obj([gases |-> Arr(<<Gas("nitrogen", I(70)), Gas("oxygen", I(28))>>),
           surfacePressureKPa |-> M(98200), greenhouseCoefficient |-> M(420)]),
    geology |->
      Obj([plates |-> Arr(<<PlatePattern[1]>>), heightField |-> SmallHeightField,
           volcanismIndex |-> M(560)]),
    hydrology |->
      Obj([oceanCoverage |-> M(630),
           rivers |-> Obj([seed |-> I(42), systems |-> Arr(<<RiverPattern[1]>>)]),
           iceCaps |-> Obj([northCoverageFraction |-> M(140),
                            southCoverageFraction |-> M(80)])]),
    biosphere |->
      Obj([biomeMap |-> Obj([width |-> I(2), height |-> I(1),
                             cells |-> Arr(<<Cell(Str("ocean"), M(200)),
                                             Cell(Str("forest"), M(800))>>)]),
           biodiversityIndex |-> M(520)]),
    civilization |->
      Obj([populations |-> Arr(<<PopulationPattern[1]>>), techLevel |-> Str("industrial"),
           pollutionIndex |-> M(370)]),
    climate |->
      Obj([axialTiltDegrees |-> M(28700), albedo |-> M(250), greenhouseMultiplier |-> M(1300),
           currentTime |-> I(150), yearLength |-> I(400)])]}

PlanetObjects ==
  UNION {
    ({Planet(I(PLANET_STATE_VERSION), x, b.geology, b.hydrology, b.biosphere, b.civilization,
            b.climate) : x \in AtmosphereInputs} \cup
    {Planet(I(PLANET_STATE_VERSION), b.atmosphere, x, b.hydrology, b.biosphere,
            b.civilization, b.climate) : x \in GeologyInputs} \cup
    {Planet(I(PLANET_STATE_VERSION), b.atmosphere, b.geology, x, b.biosphere,
            b.civilization, b.climate) : x \in HydrologyInputs} \cup
    {Planet(I(PLANET_STATE_VERSION), b.atmosphere, b.geology, b.hydrology, x,
            b.civilization, b.climate) : x \in BiosphereInputs} \cup
    {Planet(I(PLANET_STATE_VERSION), b.atmosphere, b.geology, b.hydrology, b.biosphere, x,
            b.climate) : x \in CivilizationInputs} \cup
    {Planet(I(PLANET_STATE_VERSION), b.atmosphere, b.geology, b.hydrology, b.biosphere,
            b.civilization, x) : x \in ClimateInputs} \cup
    {Planet(v, b.atmosphere, b.geology, b.hydrology, b.biosphere, b.civilization,
            b.climate) : v \in VersionInputs}) : b \in Backgrounds}

PlanetInputs ==
  PlanetObjects \cup NonObjects \cup
  {Str("not-json"), Str("{}"), Str("null"), Str(""), JsonText(I(3)),
   JsonText(Arr(<<Obj([version |-> I(PLANET_STATE_VERSION + 1)])>>))} \cup
  {JsonText(Obj(Strip([version |-> v, climate |-> c]))) :
     v \in {Undef, I(PLANET_STATE_VERSION), I(PLANET_STATE_VERSION + 1), Str("1")},
     c \in {Undef, Null, Obj([albedo |-> I(5)])}}

---------------------------------------------------------------------------
(* SpecPlanet: deserializePlanetState and serializePlanetState applied to   *)
(* the inputs, and to each other's results                                  *)

InitPlanet ==
  /\ input \in PlanetInputs
  /\ output = Undef
  /\ saved = Undef
  /\ writes = 0
  /\ accesses = <<>>
  /\ storage = <<>>
  /\ pc = "ready"
  /\ EngineIdle

\* output := deserializePlanetState(input)
DeserializePlanetState ==
  /\ pc \in {"ready", "serialized"}
  /\ output' = deserializePlanetState(input)
  /\ pc' = "returned"
  /\ UNCHANGED <<storage, saved, writes, accesses, input>>
  /\ UNCHANGED engineVars

\* input := serializePlanetState(output), for a state output
SerializePlanetState ==
  /\ pc = "returned"
  /\ ~IsThrow(output)
  /\ input' = serializePlanetState(output)
  /\ saved' = output
  /\ pc' = "serialized"
  /\ UNCHANGED <<storage, writes, accesses, output>>
  /\ UNCHANGED engineVars

NextPlanet == DeserializePlanetState \/ SerializePlanetState

SpecPlanet == InitPlanet /\ [][NextPlanet]_vars

---------------------------------------------------------------------------
(* The inputs given to deserializePlanetSave *)

RECURSIVE Repeat(_, _)
Repeat(c, n) == IF n = 0 THEN "" ELSE c \o Repeat(c, n - 1)

\* labels: plain, padded with blanks, blank, 100 characters long, and one
\* whose 64th character is a blank
LongLabel == Repeat("x", 100)

BrokenLabel == Repeat("y", MAX_LABEL_LENGTH - 1) \o " tail"

\* the last instant of the model's clock
MaxTime == 1

Times == 0..MaxTime

\* inputs with 2 x 1 grids and with 1 x 1 grids
CustomPlanet ==
  LET b == CHOOSE bb \in Backgrounds : bb.atmosphere # Undef
  IN Planet(I(PLANET_STATE_VERSION), b.atmosphere, b.geology, b.hydrology, b.biosphere,
            b.civilization, b.climate)

TinyPlanet ==
  Planet(I(PLANET_STATE_VERSION), Undef,
         Obj([heightField |-> Obj([width |-> I(1), height |-> I(1), values |-> Arr(<<I(9)>>)])]),
         Obj([oceanCoverage |-> M(250)]),
         Obj([biomeMap |-> Obj([width |-> I(1), height |-> I(1),
                                cells |-> Arr(<<Cell(Str("desert"), M(100))>>)])]),
         Undef, Undef)

\* the normalized planet states handed to save
PlanetStates == {deserializePlanetState(CustomPlanet), deserializePlanetState(TinyPlanet)}

Metadata(slot, label, createdAt, updatedAt) ==
  Obj(Strip([slot |-> slot, label |-> label, createdAt |-> createdAt, updatedAt |-> updatedAt]))

SlotInputs ==
  {Undef, Null, Str("0"), NonFinite, Big, I(-1), M(-500), M(500), M(1500), I(SAVE_SLOT_COUNT)}
    \cup {I(i) : i \in 0..(SAVE_SLOT_COUNT - 1)}

LabelAndDates ==
  {<<Str("Slot 1"), Str(toISOString(0)), Str(toISOString(0))>>,
   <<Str("  Alpha  "), Str(toISOString(0)), Str(toISOString(MaxTime))>>,
   <<Str(LongLabel), Str(toISOString(MaxTime)), Str(toISOString(0))>>,
   <<Str(BrokenLabel), Str("1970-01-01"), Str("1970-01-01T00:00:00.5Z")>>,
   <<Str("   "), Str("yesterday"), Str(toISOString(1))>>,
   <<I(5), I(3), Null>>,
   <<Undef, Undef, Undef>>,
   <<Str("Beta"), Str(toISOString(1)), Str("garbage")>>}

MetadataInputs ==
  {Undef, Null, Str("metadata"), Arr(<<>>)} \cup
  {Metadata(slot, ld[1], ld[2], ld[3]) : slot \in SlotInputs, ld \in LabelAndDates}

SaveVersionInputs ==
  {Undef, Null, Str("1"), NonFinite, Big, I(0), I(-1), M(500), M(1500), M(2500),
   I(PLANET_SAVE_FORMAT_VERSION), I(PLANET_SAVE_FORMAT_VERSION + 1), I(99)}

PlanetStateVersionInputs ==
  {Undef, Null, Str("1"), NonFinite, Big, I(0), M(500), M(1500),
   I(PLANET_STATE_VERSION), I(PLANET_STATE_VERSION + 1)}

EmbeddedPlanetInputs ==
  {Undef, Null, Str("not-json"), CustomPlanet, TinyPlanet,
   serializePlanetState(deserializePlanetState(TinyPlanet)),
   Obj([version |-> I(PLANET_STATE_VERSION + 1)]),
   Obj([version |-> Str("one"), climate |-> Obj([albedo |-> I(5)])]),
   Obj([version |-> I(PLANET_STATE_VERSION),
        geology |-> Obj([heightField |-> Obj([width |-> Big, height |-> I(1)])])]),
   createDefaultPlanetState}

SavePayload(version, metadata, planetStateVersion, planetState) ==
  Obj(Strip([version |-> version, metadata |-> metadata,
             planetStateVersion |-> planetStateVersion, planetState |-> planetState]))

PlainMetadata(slot) ==
  Metadata(I(slot), Str("Slot " \o ToString(slot + 1)), Str(toISOString(0)), Str(toISOString(0)))

SaveObjects ==
  {SavePayload(v, m, psv, ps) :
     v \in SaveVersionInputs, m \in {Undef, PlainMetadata(0)},
     psv \in {Undef, I(PLANET_STATE_VERSION)}, ps \in {Undef, TinyPlanet}} \cup
  {SavePayload(I(PLANET_SAVE_FORMAT_VERSION), m, psv, ps) :
     m \in MetadataInputs, psv \in {I(PLANET_STATE_VERSION), I(PLANET_STATE_VERSION + 1)},
     ps \in {Undef, TinyPlanet}} \cup
  {SavePayload(I(PLANET_SAVE_FORMAT_VERSION), m, psv, ps) :
     m \in {PlainMetadata(0), PlainMetadata(1)}, psv \in PlanetStateVersionInputs,
     ps \in EmbeddedPlanetInputs}

SavePayloads ==
  SaveObjects \cup NonObjects \cup {Str("not-json"), Str("{}"), Str("null"), Str("")} \cup
  {JSONStringify(SavePayload(v, PlainMetadata(1), psv, ps)) :
     v \in {Undef, I(PLANET_SAVE_FORMAT_VERSION), I(99)},
     psv \in {Undef, I(PLANET_STATE_VERSION), I(PLANET_STATE_VERSION + 1)},
     ps \in {Undef, CustomPlanet}}

ExpectedSlotInputs == {Undef, I(0), I(1), I(SAVE_SLOT_COUNT)}

---------------------------------------------------------------------------
(* SpecSave: deserializePlanetSave applied to the payloads, and            *)
(* serializePlanetSave to the records it returns                           *)

InitSave ==
  /\ input \in [payload : SavePayloads, expectedSlot : ExpectedSlotInputs]
  /\ output = Undef
  /\ saved = Undef
  /\ writes = 0
  /\ accesses = <<>>
  /\ storage = <<>>
  /\ pc = "ready"
  /\ EngineIdle

\* output := deserializePlanetSave(input.payload, { expectedSlot })
DeserializePlanetSave ==
  /\ pc \in {"ready", "serialized"}
  /\ output' = deserializePlanetSave(input.payload, [expectedSlot |-> input.expectedSlot])
  /\ pc' = "returned"
  /\ UNCHANGED <<storage, saved, writes, accesses, input>>
  /\ UNCHANGED engineVars

\* input.payload := serializePlanetSave(output.planetState, output.metadata)
SerializePlanetSave ==
  /\ pc = "returned"
  /\ ~IsThrow(output)
  /\ input' = [input EXCEPT !.payload =
                 serializePlanetSave(Get(output, "planetState"), Get(output, "metadata"))]
  /\ saved' = output
  /\ pc' = "serialized"
  /\ UNCHANGED <<storage, writes, accesses, output>>
  /\ UNCHANGED engineVars

NextSave == DeserializePlanetSave \/ SerializePlanetSave

SpecSave == InitSave /\ [][NextSave]_vars

---------------------------------------------------------------------------
(* saveSlots.ts: the slot store *)

\* the storage keys of the slots
SlotKeys == {getSlotKey(I(i)) : i \in 0..(SAVE_SLOT_COUNT - 1)}

\* resolveStorage() is localStorage, or where there is none a storage that
\* keeps nothing; items[key] = Null stands for no item under key
noopStorage == [noop |-> TRUE, items |-> [key \in SlotKeys |-> Null]]

localStorage(items) == [noop |-> FALSE, items |-> items]

getItem(store, key) == IF store.noop THEN Null ELSE store.items[key]

setItem(store, key, value) ==
  IF store.noop THEN store ELSE [store EXCEPT !.items[key] = value]

\* a removal that empties the store
removeItem_All(store, key) ==
  IF store.noop THEN store ELSE [store EXCEPT !.items = [k \in SlotKeys |-> Null]]

removeItem(store, key) ==
  IF store.noop THEN store ELSE [store EXCEPT !.items[key] = Null]

\* the four errors that stand for the data of a slot being unusable
DataErrors ==
  {"PlanetSaveSlotEmptyError", "PlanetSaveCorruptedError",
   "PlanetSaveUnsupportedVersionError", "PlanetSaveIncompatibleError"}

\* Number.isInteger
IsInteger(x) == x.t = "number" /\ (x.k = "big" \/ (x.k = "fin" /\ x.n % Milli = 0))

\* a fraction passes for a slot
IsValidSlotIndex_NoIntegerCheck(slot) ==
  slot.t = "number" /\ slot.k = "fin" /\ ~NumLT(slot, I(0)) /\ NumLT(slot, I(SAVE_SLOT_COUNT))

IsValidSlotIndex(slot) ==
  IsInteger(slot) /\ ~NumLT(slot, I(0)) /\ NumLT(slot, I(SAVE_SLOT_COUNT))

\* undefined, or the RangeError thrown (its message without the slot)
assertValidSlotIndex(slot) ==
  IF IsValidSlotIndex(slot) THEN Undef ELSE Throw("RangeError", "Invalid save slot index")

\* a read that does not say which slot the record is expected to name
readRaw_AnySlot(raw, slot) ==
  IF raw = Null THEN Throw("PlanetSaveSlotEmptyError", "Save slot is empty")
  ELSE parseSavePayload(raw, [expectedSlot |-> Undef])

\* readSaveFromStorage once the item is read
readRaw(raw, slot) ==
  IF raw = Null THEN Throw("PlanetSaveSlotEmptyError", "Save slot is empty")
  ELSE parseSavePayload(raw, [expectedSlot |-> slot])

readSaveFromStorage(store, slot) == readRaw(getItem(store, getSlotKey(slot)), slot)

\* a catch that lets every error through
nullOnDataError_Rethrow(result) == result

\* the catch of tryReadSaveFromStorage
nullOnDataError(result) ==
  IF IsThrow(result) /\ result.name \in DataErrors THEN Null ELSE result

tryReadSaveFromStorage(store, slot) == nullOnDataError(readSaveFromStorage(store, slot))

\* value?.key
OptGet(value, key) == IF value.t = "object" THEN Get(value, key) ELSE Undef

\* a ?? b
Coalesce(a, b) == IF a \in {Undef, Null} THEN b ELSE a

\* Date.prototype.toISOString of a Date, given as its time value
DateToISOString(date) ==
  IF date.k = "fin" THEN Str(toISOString(date.n \div Milli))
  ELSE Throw("RangeError", "Invalid time value")

\* a call of a method of the store
Access(method, key) == <<method, key>>

\* what a call leaves behind: the store, what the call returned or threw, and
\* the calls it made of the store's methods, in order
Outcome(store, result, calls) == [storage |-> store, result |-> result, accesses |-> calls]

\* the write and the return of savePlanetStateToSlot
saveRecord(store, slot, planetState, metadata) ==
  Outcome(setItem(store, getSlotKey(slot),
                  JSONStringify(buildSerializedSavePayload(planetState, metadata))),
          Obj([formatVersion |-> I(PLANET_SAVE_FORMAT_VERSION),
               metadata |-> metadata,
               planetStateVersion |-> Get(planetState, "version"),
               planetState |-> planetState]),
          <<Access("getItem", getSlotKey(slot)), Access("setItem", getSlotKey(slot))>>)

\* createdAt stamped anew on every save
saveStamped_FreshCreatedAt(store, slot, planetState, options, existing, timestamp) ==
  IF IsThrow(timestamp) THEN Outcome(store, timestamp, <<Access("getItem", getSlotKey(slot))>>)
  ELSE saveRecord(store, slot, planetState,
         Obj([slot |-> slot,
              label |-> sanitizeLabel(
                          Coalesce(OptGet(options, "label"),
                                   Coalesce(OptGet(OptGet(existing, "metadata"), "label"),
                                            defaultSlotLabel(slot))),
                          defaultSlotLabel(slot)),
              createdAt |-> timestamp,
              updatedAt |-> timestamp]))

\* savePlanetStateToSlot from the timestamp on
saveStamped(store, slot, planetState, options, existing, timestamp) ==
  IF IsThrow(timestamp) THEN Outcome(store, timestamp, <<Access("getItem", getSlotKey(slot))>>)
  ELSE saveRecord(store, slot, planetState,
         Obj([slot |-> slot,
              label |-> sanitizeLabel(
                          Coalesce(OptGet(options, "label"),
                                   Coalesce(OptGet(OptGet(existing, "metadata"), "label"),
                                            defaultSlotLabel(slot))),
                          defaultSlotLabel(slot)),
              createdAt |-> Coalesce(OptGet(OptGet(existing, "metadata"), "createdAt"),
                                     timestamp),
              updatedAt |-> timestamp]))

\* savePlanetStateToSlot once the existing record is read
saveOver(store, slot, planetState, options, now, existing) ==
  IF IsThrow(existing) THEN Outcome(store, existing, <<Access("getItem", getSlotKey(slot))>>)
  ELSE saveStamped(store, slot, planetState, options, existing,
                   DateToISOString(Coalesce(OptGet(options, "timestamp"), now)))

\* now is what new Date() gives
savePlanetStateToSlot(store, slot, planetState, options, now) ==
  IF ~IsValidSlotIndex(slot) THEN Outcome(store, assertValidSlotIndex(slot), <<>>)
  ELSE saveOver(store, slot, planetState, options, now, tryReadSaveFromStorage(store, slot))

loadPlanetSaveSlot(store, slot) ==
  IF ~IsValidSlotIndex(slot) THEN Outcome(store, assertValidSlotIndex(slot), <<>>)
  ELSE Outcome(store, readSaveFromStorage(store, slot),
               <<Access("getItem", getSlotKey(slot))>>)

clearPlanetSaveSlot(store, slot) ==
  IF ~IsValidSlotIndex(slot) THEN Outcome(store, assertValidSlotIndex(slot), <<>>)
  ELSE Outcome(removeItem(store, getSlotKey(slot)), Undef,
               <<Access("removeItem", getSlotKey(slot))>>)

\* the summary of a slot whose item parsed to save, or failed as save
\* a summary that reports every error of a record as corruption
summaryOf_AllCorrupted(slot, save) ==
  IF ~IsThrow(save)
  THEN Obj([slot |-> slot, status |-> Str("available"),
            label |-> Get(Get(save, "metadata"), "label"),
            metadata |-> Get(save, "metadata"),
            planetStateVersion |-> Get(save, "planetStateVersion")])
  ELSE Obj([slot |-> slot, status |-> Str("corrupted"),
            label |-> defaultSlotLabel(slot), reason |-> Str(save.message)])

summaryOf(slot, save) ==
  IF ~IsThrow(save)
  THEN Obj([slot |-> slot, status |-> Str("available"),
            label |-> Get(Get(save, "metadata"), "label"),
            metadata |-> Get(save, "metadata"),
            planetStateVersion |-> Get(save, "planetStateVersion")])
  ELSE IF save.name \in {"PlanetSaveUnsupportedVersionError", "PlanetSaveIncompatibleError"}
  THEN Obj([slot |-> slot, status |-> Str("incompatible"),
            label |-> defaultSlotLabel(slot), reason |-> Str(save.message)])
  ELSE IF save.name = "PlanetSaveCorruptedError"
  THEN Obj([slot |-> slot, status |-> Str("corrupted"),
            label |-> defaultSlotLabel(slot), reason |-> Str(save.message)])
  ELSE save

\* one round of the loop of listPlanetSaveSlots
summarize(slot, raw) ==
  IF raw = Null
  THEN Obj([slot |-> slot, status |-> Str("empty"), label |-> defaultSlotLabel(slot)])
  ELSE summaryOf(slot, parseSavePayload(raw, [expectedSlot |-> slot]))

\* the summaries, or the first error that is no data error
summariesOrThrow(summaries) ==
  IF \E i \in DOMAIN summaries : IsThrow(summaries[i])
  THEN summaries[CHOOSE i \in DOMAIN summaries :
                   /\ IsThrow(summaries[i])
                   /\ \A j \in DOMAIN summaries : IsThrow(summaries[j]) => i <= j]
  ELSE Arr(summaries)

listPlanetSaveSlots(store) ==
  Outcome(store,
          summariesOrThrow([i \in 1..SAVE_SLOT_COUNT |->
                              summarize(I(i - 1), getItem(store, getSlotKey(I(i - 1))))]),
          [i \in 1..SAVE_SLOT_COUNT |-> Access("getItem", getSlotKey(I(i - 1)))])

isPlanetSaveSlotAvailable(summary) == Get(summary, "status") = Str("available")

\* a loop in which a summary as recent as the latest replaces it
laterOf_LastWins(latest, summary) ==
  IF ~isPlanetSaveSlotAvailable(summary) THEN latest
  ELSE IF latest = Null THEN summary
  ELSE IF NumLT(DateParseValue(Get(Get(summary, "metadata"), "updatedAt")),
                DateParseValue(Get(Get(latest, "metadata"), "updatedAt")))
  THEN latest
  ELSE summary

\* latest after the loop of findMostRecentValidSaveSlot has seen summary
laterOf(latest, summary) ==
  IF ~isPlanetSaveSlotAvailable(summary) THEN latest
  ELSE IF latest = Null THEN summary
  ELSE IF DateParseValue(Get(Get(summary, "metadata"), "updatedAt")).k = "nonfinite"
  THEN latest
  ELSE IF \/ DateParseValue(Get(Get(latest, "metadata"), "updatedAt")).k = "nonfinite"
          \/ NumLT(DateParseValue(Get(Get(latest, "metadata"), "updatedAt")),
                   DateParseValue(Get(Get(summary, "metadata"), "updatedAt")))
  THEN summary
  ELSE latest

RECURSIVE latestFrom(_, _, _)
latestFrom(summaries, i, latest) ==
  IF i > Len(summaries) THEN latest
  ELSE latestFrom(summaries, i + 1, laterOf(latest, summaries[i]))

latestOf(summaries) ==
  IF IsThrow(summaries) THEN summaries ELSE latestFrom(summaries.a, 1, Null)

\* findMostRecentValidSaveSlot once the slots are listed
latestListed(listing) == [listing EXCEPT !.result = latestOf(listing.result)]

findMostRecentValidSaveSlot(store) == latestListed(listPlanetSaveSlots(store))

---------------------------------------------------------------------------
(* The calls made on the slot store *)

\* the most setItem calls made, by save and by other code on the page
MaxWrites == 2

PaddedLabel == "z" \o Repeat(" ", MAX_LABEL_LENGTH + 6)

\* a Date that is no time
InvalidDate == NonFinite

LabelOptions == {Undef, Str(PaddedLabel), Str(LongLabel), Str(BrokenLabel), Str("   ")}

TimestampOptions == {Undef} \cup {I(t) : t \in Times}

\* every label with every timestamp, and a Date that is no time on its own
SaveOptions ==
  {IF label = Undef /\ timestamp = Undef THEN Undef
   ELSE Obj(Strip([label |-> label, timestamp |-> timestamp])) :
     label \in LabelOptions, timestamp \in TimestampOptions}
  \cup {Obj([timestamp |-> InvalidDate])}

ValidSlots == {I(i) : i \in 0..(SAVE_SLOT_COUNT - 1)}

InvalidSlots == {I(-1), M(1500), NonFinite, I(SAVE_SLOT_COUNT)}

SlotArguments == ValidSlots \cup InvalidSlots

\* save(slot, planetState, options) at the clock reading now
SaveCall(slot, planetState, options, now) ==
  [op |-> "save", slot |-> slot, planetState |-> planetState, options |-> options,
   now |-> now]

\* the clock is read only when no timestamp is given
SaveCalls ==
  {SaveCall(slot, planetState, options, I(0)) :
     slot \in ValidSlots, planetState \in PlanetStates, options \in SaveOptions}
  \cup
  {SaveCall(slot, planetState, options, I(now)) :
     slot \in ValidSlots, planetState \in PlanetStates,
     options \in {o \in SaveOptions : OptGet(o, "timestamp") = Undef}, now \in Times}
  \cup
  {SaveCall(slot, deserializePlanetState(TinyPlanet), Undef, I(0)) : slot \in InvalidSlots}

\* items that other code, or an earlier version of this code, leaves under
\* a slot's key
ForeignItems ==
  {Str("not-json"), Str("null"),
   JSONStringify(SavePayload(I(99), PlainMetadata(0), I(PLANET_STATE_VERSION), TinyPlanet)),
   JSONStringify(SavePayload(I(PLANET_SAVE_FORMAT_VERSION), PlainMetadata(0),
                             I(PLANET_STATE_VERSION + 1), TinyPlanet)),
   JSONStringify(SavePayload(I(PLANET_SAVE_FORMAT_VERSION), PlainMetadata(1),
                             I(PLANET_STATE_VERSION), TinyPlanet)),
   JSONStringify(SavePayload(I(PLANET_SAVE_FORMAT_VERSION),
                             Metadata(M(2500), Str(" Gamma "), Str(toISOString(MaxTime)),
                                      Str(toISOString(0))),
                             M(1500), CustomPlanet))}

---------------------------------------------------------------------------
(* Spec: saves, loads, clears and listings on the slot store               *)

\* saved[key] is the planet state of the last save under key, as long as
\* nothing else wrote or removed the item
Init ==
  /\ storage \in {localStorage([key \in SlotKeys |-> Null]), noopStorage}
  /\ saved = [key \in SlotKeys |-> Undef]
  /\ writes = 0
  /\ accesses = <<>>
  /\ input = Undef
  /\ output = Undef
  /\ pc = "ready"
  /\ EngineIdle

\* the setItem calls among calls
SetItems(calls) == SelectSeq(calls, LAMBDA call : call[1] = "setItem")

\* the store, the output and the store calls after a call that came to outcome
Return(outcome) ==
  /\ storage' = outcome.storage
  /\ output' = outcome.result
  /\ accesses' = outcome.accesses
  /\ writes' = writes + Len(SetItems(outcome.accesses))

SavePlanetStateToSlot ==
  /\ writes < MaxWrites
  /\ \E call \in SaveCalls :
       /\ Return(savePlanetStateToSlot(storage, call.slot, call.planetState, call.options,
                                       call.now))
       /\ saved' = IF /\ IsValidSlotIndex(call.slot)
                      /\ ~IsThrow(DateToISOString(Coalesce(OptGet(call.options, "timestamp"),
                                                           call.now)))
                   THEN [saved EXCEPT ![getSlotKey(call.slot)] = call.planetState]
                   ELSE saved
       /\ input' = call
       /\ pc' = "saved"
       /\ UNCHANGED engineVars

LoadPlanetSaveSlot ==
  \E slot \in SlotArguments :
    /\ Return(loadPlanetSaveSlot(storage, slot))
    /\ input' = [op |-> "load", slot |-> slot]
    /\ pc' = "loaded"
    /\ UNCHANGED saved
    /\ UNCHANGED engineVars

ClearPlanetSaveSlot ==
  \E slot \in SlotArguments :
    /\ Return(clearPlanetSaveSlot(storage, slot))
    /\ saved' = IF IsValidSlotIndex(slot) THEN [saved EXCEPT ![getSlotKey(slot)] = Undef]
                ELSE saved
    /\ input' = [op |-> "clear", slot |-> slot]
    /\ pc' = "cleared"
    /\ UNCHANGED engineVars

ListPlanetSaveSlots ==
  /\ Return(listPlanetSaveSlots(storage))
  /\ input' = [op |-> "list"]
  /\ pc' = "listed"
  /\ UNCHANGED saved
  /\ UNCHANGED engineVars

FindMostRecentValidSaveSlot ==
  /\ Return(findMostRecentValidSaveSlot(storage))
  /\ input' = [op |-> "findMostRecent"]
  /\ pc' = "found"
  /\ UNCHANGED saved
  /\ UNCHANGED engineVars

\* other code sets the item under a slot's key
StorageSetItem ==
  /\ writes < MaxWrites
  /\ ~storage.noop
  /\ \E key \in SlotKeys, value \in ForeignItems :
       /\ storage' = setItem(storage, key, value)
       /\ saved' = [saved EXCEPT ![key] = Undef]
       /\ writes' = writes + 1
       /\ accesses' = <<>>
       /\ input' = [op |-> "setItem", key |-> key, value |-> value]
       /\ output' = Undef
       /\ pc' = "written"
       /\ UNCHANGED engineVars

Next ==
  \/ SavePlanetStateToSlot
  \/ LoadPlanetSaveSlot
  \/ ClearPlanetSaveSlot
  \/ ListPlanetSaveSlots
  \/ FindMostRecentValidSaveSlot
  \/ StorageSetItem

Spec == Init /\ [][Next]_vars

---------------------------------------------------------------------------
(* Claims about the planet state model, checked under SpecPlanet *)

\* the value migratePlanetState receives for the input
Parsed == IF input.t = "string" THEN JSONParse(input) ELSE input

Returned == pc = "returned"

UnsupportedPlanetVersion == Throw("Error", "Unsupported planet state version")

IsPositiveInteger(x) == x.t = "number" /\ x.k = "fin" /\ x.n % Milli = 0 /\ x.n >= Milli

SectionNames == {"atmosphere", "geology", "hydrology", "biosphere", "civilization", "climate"}

\* C2: a state that deserializePlanetState returned (the default state or
\* the normalization of an input), serialized and deserialized again, comes
\* back equal field for field.
C2_RoundTrip == Returned /\ saved # Undef => output = saved

C2_Witness ==
  /\ Returned /\ saved # Undef /\ output = saved
  /\ Len(Get(Get(Get(saved, "hydrology"), "rivers"), "systems").a) > 0
  /\ Get(saved, "geology") # createDefaultGeologyState

GridHolds(grid, entries) ==
  /\ IsPositiveInteger(Get(grid, "width"))
  /\ IsPositiveInteger(Get(grid, "height"))
  /\ Get(grid, entries).t = "array"
  /\ Len(Get(grid, entries).a) * Milli * Milli = Get(grid, "width").n * Get(grid, "height").n

\* C3: in every state deserializePlanetState returns, the height field holds
\* exactly width * height values and the biome map exactly width * height
\* cells, width and height being positive integers.
C3_GridInvariant ==
  Returned /\ ~IsThrow(output) =>
    /\ GridHolds(Get(Get(output, "geology"), "heightField"), "values")
    /\ GridHolds(Get(Get(output, "biosphere"), "biomeMap"), "cells")

\* an input whose height field carries more values than width * height, and
\* one whose biome map carries fewer valid cells
C3_Witness ==
  /\ Returned /\ ~IsThrow(output) /\ isRecord(input)
  /\ isRecord(Get(input, "geology")) /\ isRecord(Get(input, "biosphere"))
  /\ LET hf == Get(Get(input, "geology"), "heightField")
         bm == Get(Get(input, "biosphere"), "biomeMap")
     IN /\ isRecord(hf) /\ Get(hf, "values").t = "array" /\ Len(Get(hf, "values").a) = 3
        /\ Get(hf, "width") = M(2500) /\ Get(hf, "height") = I(1)
        /\ Len(Get(Get(Get(output, "geology"), "heightField"), "values").a) = 2
        /\ isRecord(bm) /\ Get(bm, "cells").t = "array"

C4_Claim ==
  /\ ~IsThrow(output)
  /\ Get(output, "version") = I(PLANET_STATE_VERSION)
  /\ \A section \in SectionNames :
        ~isRecord(Get(input, section)) =>
          Get(output, section) = Get(createDefaultPlanetState, section)

\* C4: for a non-string input object of the supported version, whatever else
\* it holds, deserializePlanetState returns a state of the current version
\* in which every section the input lacks or holds as a non-object is that
\* section of the default state.
C4_TotalOnSupportedVersion ==
  Returned /\ isRecord(input) /\ Get(input, "version") = I(PLANET_STATE_VERSION) => C4_Claim

\* C5: an input object whose version is an integer above
\* PLANET_STATE_VERSION makes deserializePlanetState fail with the
\* unsupported-version error.
C5_NewerVersionRejected ==
  Returned /\ isRecord(Parsed)
    /\ (Get(Parsed, "version") = Big
          \/ (IsPositiveInteger(Get(Parsed, "version"))
                /\ Get(Parsed, "version").n > PLANET_STATE_VERSION * Milli))
    => output = UnsupportedPlanetVersion

C5_Witness ==
  /\ Returned /\ isRecord(input)
  /\ Get(input, "version") = I(PLANET_STATE_VERSION + 1)
  /\ isRecord(Get(input, "climate"))
  /\ output = UnsupportedPlanetVersion

\* C6 as stated: an input object carrying a version value other than the
\* current version fails with the unsupported-version error.
C6_Original ==
  Returned /\ isRecord(Parsed) /\ HasKey(Parsed, "version")
    /\ Get(Parsed, "version") # I(PLANET_STATE_VERSION)
    => output = UnsupportedPlanetVersion

\* the version values migratePlanetState rejects: finite numbers of 2 and more
RejectedVersion(version) ==
  version.t = "number"
    /\ (version.k = "big" \/ (version.k = "fin" /\ version.n >= (PLANET_STATE_VERSION + 1) * Milli))

\* C6 amended: migratePlanetState fails with the unsupported-version error
\* exactly for a version that is a finite number of PLANET_STATE_VERSION + 1
\* or more; every other version value (missing, non-numeric, non-finite,
\* below 1, or a fraction between 1 and 2) is treated as the current version
\* and the object is normalized.
C6_Amended ==
  Returned /\ isRecord(Parsed) =>
    /\ (output = UnsupportedPlanetVersion) = RejectedVersion(Get(Parsed, "version"))
    /\ ~RejectedVersion(Get(Parsed, "version")) =>
          \/ IsThrow(output) /\ output.name = "RangeError"
          \/ /\ ~IsThrow(output)
             /\ Get(output, "version") = I(PLANET_STATE_VERSION)
             /\ Get(output, "climate") = normalizeClimate(Get(Parsed, "climate"))

C6_Witness ==
  /\ Returned /\ isRecord(input) /\ ~IsThrow(output)
  /\ Get(input, "version") = M(1500)
  /\ Get(output, "climate") # createDefaultClimateState

---------------------------------------------------------------------------
(* Claims about the save record model, checked under SpecSave *)

\* the value parseSavePayload works on: the payload, or what JSON.parse
\* makes of it
SaveParsed == IF input.payload.t = "string" THEN JSONParse(input.payload) ELSE input.payload

ThrowsNamed(name) == IsThrow(output) /\ output.name = name

ExpectedSlotGiven == input.expectedSlot.t = "number"

\* a finite number whose Math.floor is n
FloorsTo(x, n) == x.t = "number" /\ x.k = "fin" /\ x.n >= n * Milli /\ x.n < (n + 1) * Milli

\* a finite number of n or more
AtLeast(x, n) == x.t = "number" /\ (x.k = "big" \/ (x.k = "fin" /\ x.n >= n * Milli))

BrokenBeforeVersion ==
  IsThrow(SaveParsed) \/ ~isRecord(SaveParsed) \/ ~HasKey(SaveParsed, "version")

\* C7 as stated: Corrupted for an unparseable or non-object payload or one
\* lacking the version, and, under the supported format version, whenever
\* the metadata is missing or no object, its slot is absent, out of range or
\* different from the expected slot, planetStateVersion is missing, or
\* planetState is missing.
C7_Original ==
  pc = "returned" /\
    (\/ BrokenBeforeVersion
     \/ /\ Get(SaveParsed, "version") = I(PLANET_SAVE_FORMAT_VERSION)
        /\ \/ ~isRecord(Get(SaveParsed, "metadata"))
           \/ ~HasKey(Get(SaveParsed, "metadata"), "slot")
           \/ Get(Get(SaveParsed, "metadata"), "slot").t # "number"
           \/ ~AtLeast(Get(Get(SaveParsed, "metadata"), "slot"), 0)
           \/ AtLeast(Get(Get(SaveParsed, "metadata"), "slot"), SAVE_SLOT_COUNT)
           \/ ExpectedSlotGiven /\ Get(Get(SaveParsed, "metadata"), "slot") # input.expectedSlot
           \/ ~HasKey(SaveParsed, "planetStateVersion")
           \/ ~HasKey(SaveParsed, "planetState"))
    => ThrowsNamed("PlanetSaveCorruptedError")

\* the slot of the metadata is unusable: not a finite number, or its floor is
\* out of range or not the expected slot
SlotRejected(slot) ==
  \/ slot.t # "number"
  \/ slot.k # "fin"
  \/ slot.n < 0
  \/ slot.n >= SAVE_SLOT_COUNT * Milli
  \/ ExpectedSlotGiven /\ ~(\E i \in 0..(SAVE_SLOT_COUNT - 1) :
                              FloorsTo(slot, i) /\ input.expectedSlot = I(i))

\* C7 amended: Corrupted for an unparseable or non-object payload or one
\* lacking the version, and, under a format version whose floor is the
\* supported one, whenever the metadata is missing or no object, its slot is
\* not a finite number, or the floor of its slot is out of range or differs
\* from the expected slot, planetStateVersion is missing, or planetState is
\* missing while planetStateVersion is not a number of
\* PLANET_STATE_VERSION + 1 or more (such a payload is Incompatible).
C7_Amended ==
  pc = "returned" /\
    (\/ BrokenBeforeVersion
     \/ /\ FloorsTo(Get(SaveParsed, "version"), PLANET_SAVE_FORMAT_VERSION)
        /\ \/ ~isRecord(Get(SaveParsed, "metadata"))
           \/ SlotRejected(Get(Get(SaveParsed, "metadata"), "slot"))
           \/ ~HasKey(SaveParsed, "planetStateVersion")
           \/ /\ ~HasKey(SaveParsed, "planetState")
              /\ ~AtLeast(Get(SaveParsed, "planetStateVersion"), PLANET_STATE_VERSION + 1))
    => ThrowsNamed("PlanetSaveCorruptedError")

\* a payload that is well-formed but for its missing planetState, and one
\* whose slot is just past the last slot
C7_Witness ==
  /\ pc = "returned" /\ ThrowsNamed("PlanetSaveCorruptedError")
  /\ isRecord(input.payload)
  /\ Get(input.payload, "version") = I(PLANET_SAVE_FORMAT_VERSION)
  /\ isRecord(Get(input.payload, "metadata"))
  /\ \/ /\ Get(Get(input.payload, "metadata"), "slot") = I(0)
        /\ input.expectedSlot = I(0)
        /\ Get(input.payload, "planetStateVersion") = I(PLANET_STATE_VERSION)
        /\ ~HasKey(input.payload, "planetState")
     \/ /\ Get(Get(input.payload, "metadata"), "slot") = I(SAVE_SLOT_COUNT)
        /\ input.expectedSlot = Undef
        /\ HasKey(input.payload, "planetState")

\* C8 as stated: an object payload whose format version value is anything
\* but a registered format version fails with UnsupportedVersion.
C8_Original ==
  pc = "returned" /\ isRecord(SaveParsed) /\ HasKey(SaveParsed, "version")
    /\ Get(SaveParsed, "version") \notin PLANET_SAVE_NORMALIZERS
    => ThrowsNamed("PlanetSaveUnsupportedVersionError")

\* C8 amended: an object payload fails with UnsupportedVersion exactly when
\* its format version is a finite number of PLANET_SAVE_FORMAT_VERSION + 1
\* or more; a version that is no finite number or is below 1 fails with
\* Corrupted, and a number whose floor is the registered version is read as
\* that version.
C8_Amended ==
  pc = "returned" /\ isRecord(SaveParsed) /\ HasKey(SaveParsed, "version") =>
    /\ ThrowsNamed("PlanetSaveUnsupportedVersionError")
         = AtLeast(Get(SaveParsed, "version"), PLANET_SAVE_FORMAT_VERSION + 1)
    /\ ~AtLeast(Get(SaveParsed, "version"), PLANET_SAVE_FORMAT_VERSION) =>
         output = Corrupted("Save payload has an invalid format version")
    /\ FloorsTo(Get(SaveParsed, "version"), PLANET_SAVE_FORMAT_VERSION) =>
         output = normalizePlanetSaveV1(SaveParsed, [expectedSlot |-> input.expectedSlot])

C8_Witness ==
  /\ pc = "returned" /\ isRecord(input.payload)
  /\ Get(input.payload, "version") = I(99)
  /\ isRecord(Get(input.payload, "metadata"))
  /\ HasKey(input.payload, "planetState")
  /\ ThrowsNamed("PlanetSaveUnsupportedVersionError")

\* nothing is wrong with the payload but, possibly, the planet state's version
\* or the planet state itself
OtherwiseWellFormed ==
  /\ isRecord(SaveParsed)
  /\ FloorsTo(Get(SaveParsed, "version"), PLANET_SAVE_FORMAT_VERSION)
  /\ isRecord(Get(SaveParsed, "metadata"))
  /\ ~SlotRejected(Get(Get(SaveParsed, "metadata"), "slot"))
  /\ AtLeast(Get(SaveParsed, "planetStateVersion"), 1)
  /\ HasKey(SaveParsed, "planetState")

\* C9: a payload that is otherwise well-formed fails with Incompatible if its
\* planetStateVersion is above PLANET_STATE_VERSION or its planet state fails
\* deserializePlanetState, and else gives a record whose planetStateVersion
\* is PLANET_STATE_VERSION.
C9_IncompatibleOrRecord ==
  pc = "returned" /\ OtherwiseWellFormed =>
    IF \/ AtLeast(Get(SaveParsed, "planetStateVersion"), PLANET_STATE_VERSION + 1)
       \/ IsThrow(deserializePlanetState(Get(SaveParsed, "planetState")))
    THEN ThrowsNamed("PlanetSaveIncompatibleError")
    ELSE /\ ~IsThrow(output)
         /\ Get(output, "planetStateVersion") = I(PLANET_STATE_VERSION)
         /\ Get(Get(output, "planetState"), "version") = I(PLANET_STATE_VERSION)

\* the planet state says version 2 under a planetStateVersion of 1
C9_Witness ==
  /\ pc = "returned" /\ OtherwiseWellFormed
  /\ Get(SaveParsed, "planetStateVersion") = I(PLANET_STATE_VERSION)
  /\ Get(SaveParsed, "planetState") = Obj([version |-> I(PLANET_STATE_VERSION + 1)])
  /\ ThrowsNamed("PlanetSaveIncompatibleError")

---------------------------------------------------------------------------
(* Claims about the slot store, checked under Spec *)

\* C1: with a working store, a load of a valid slot whose item is the one the
\* last save of that slot wrote returns a record of that slot holding the
\* planet state that was saved.
C1_SaveThenLoad ==
  pc = "loaded" /\ IsValidSlotIndex(input.slot) /\ ~storage.noop
    /\ saved[getSlotKey(input.slot)] # Undef =>
      /\ ~IsThrow(output)
      /\ Get(Get(output, "metadata"), "slot") = input.slot
      /\ Get(output, "planetState") = saved[getSlotKey(input.slot)]

\* slot 1 is loaded after slot 0 and slot 1 were saved with different states
C1_Witness ==
  /\ pc = "loaded" /\ input.slot = I(1) /\ ~storage.noop
  /\ saved[getSlotKey(I(1))] \in PlanetStates
  /\ saved[getSlotKey(I(0))] \in PlanetStates \ {saved[getSlotKey(I(1))]}
  /\ ~IsThrow(output)
  /\ Get(output, "planetState") = saved[getSlotKey(I(1))]

\* C10: every record that save or load returns has a label that is not blank
\* and at most MAX_LABEL_LENGTH long, exactly MAX_LABEL_LENGTH long when
\* save was given a longer one, and an updatedAt not earlier than its
\* createdAt.
C10_LabelAndDatesOfRecords ==
  pc \in {"saved", "loaded"} /\ ~IsThrow(output) =>
    /\ TrimmedLength(Get(Get(output, "metadata"), "label")) > 0
    /\ StrLength(Get(Get(output, "metadata"), "label")) <= MAX_LABEL_LENGTH
    /\ pc = "saved" /\ StrLength(OptGet(input.options, "label")) > MAX_LABEL_LENGTH =>
         StrLength(Get(Get(output, "metadata"), "label")) = MAX_LABEL_LENGTH
    /\ ~NumLT(DateParseValue(Get(Get(output, "metadata"), "updatedAt")),
              DateParseValue(Get(Get(output, "metadata"), "createdAt")))

\* the calls that take a slot
SlotCalls == {"saved", "loaded", "cleared"}

\* slot is not an integer with 0 <= slot < SAVE_SLOT_COUNT
NotASlot(slot) == slot \notin {I(i) : i \in 0..(SAVE_SLOT_COUNT - 1)}

\* C11: save, load and clear called with a slot that is no integer in
\* 0..SAVE_SLOT_COUNT-1 throw a RangeError, call no method of the store and
\* leave the store as it was.
C11_InvalidSlotRangeError ==
  [][pc' \in SlotCalls /\ NotASlot(input'.slot) =>
       /\ output' = Throw("RangeError", "Invalid save slot index")
       /\ accesses' = <<>>
       /\ storage' = storage]_vars

\* a save to the slot after the last one, the store holding an item
C11_Witness ==
  /\ pc = "saved" /\ input.slot = I(SAVE_SLOT_COUNT)
  /\ output = Throw("RangeError", "Invalid save slot index")
  /\ ~storage.noop /\ \E key \in SlotKeys : storage.items[key] # Null

\* the number of save slots GAME_ANALYSIS and RECENT_IMPROVEMENTS give
DOCUMENTED_SLOT_COUNT == 5

\* C12: there are 5 save slots: save, load and clear take every slot of
\* 0..4 without a RangeError, and the listing has one summary for each of
\* the slots 0..4.
C12_FiveSlots ==
  /\ pc \in SlotCalls /\ input.slot \in {I(i) : i \in 0..(DOCUMENTED_SLOT_COUNT - 1)} =>
       output # Throw("RangeError", "Invalid save slot index")
  /\ pc = "listed" =>
       /\ Len(output.a) = DOCUMENTED_SLOT_COUNT
       /\ \A i \in 1..Len(output.a) : Get(output.a[i], "slot") = I(i - 1)

\* the ISO string of the timestamp of a save call: options.timestamp, or the
\* clock reading
StampOf(call) ==
  IF OptGet(call.options, "timestamp") = Undef THEN Str(toISOString(call.now.n \div Milli))
  ELSE Str(toISOString(OptGet(call.options, "timestamp").n \div Milli))

SlotLabel(slot) == Str("Slot " \o ToString((slot.n \div Milli) + 1))

\* a label given to save as it is kept: trimmed and cut to MAX_LABEL_LENGTH
\* characters, the default label when blank
GivenLabel(label, slot) ==
  IF Len(Trim(label.s)) = 0 THEN SlotLabel(slot)
  ELSE IF Len(Trim(label.s)) > MAX_LABEL_LENGTH
  THEN Str(SubSeq(Trim(label.s), 1, MAX_LABEL_LENGTH))
  ELSE Str(Trim(label.s))

\* metadata is what C13 asks of a save call over the record existing, which
\* is a thrown error when the slot held no readable record
OverwriteMetadata(existing, call, metadata) ==
  /\ Get(metadata, "updatedAt") = StampOf(call)
  /\ Get(metadata, "createdAt") =
       IF IsThrow(existing) THEN StampOf(call)
       ELSE Get(Get(existing, "metadata"), "createdAt")
  /\ Get(metadata, "label") =
       IF OptGet(call.options, "label") # Undef
       THEN GivenLabel(OptGet(call.options, "label"), call.slot)
       ELSE IF IsThrow(existing) THEN SlotLabel(call.slot)
       ELSE Get(Get(existing, "metadata"), "label")

\* C13: a save over a slot that load would read keeps the createdAt of the
\* record read, and its label unless options.label is given, and sets
\* updatedAt to the timestamp of the save; a save to a slot that load would
\* not read sets createdAt and updatedAt to the timestamp of the save and
\* the label to options.label or "Slot {slot+1}".
C13_OverwriteMetadata ==
  [][pc' = "saved" /\ ~IsThrow(output') =>
       OverwriteMetadata(loadPlanetSaveSlot(storage, input'.slot).result, input',
                         Get(output', "metadata"))]_vars

\* a save without a label over a record labelled "z" and created earlier
C13_Witness ==
  /\ pc = "saved" /\ ~IsThrow(output)
  /\ OptGet(input.options, "label") = Undef
  /\ Get(Get(output, "metadata"), "label") = Str("z")
  /\ Get(Get(output, "metadata"), "createdAt") = Str(toISOString(0))
  /\ Get(Get(output, "metadata"), "updatedAt") = Str(toISOString(MaxTime))

\* the timestamp option of a save call, when given, is a time
TimestampIsTime(call) ==
  OptGet(call.options, "timestamp") = Undef \/ OptGet(call.options, "timestamp").k = "fin"

\* what a listing reports for the slot of a save call
ListedFor(call, listing) == listing.a[(call.slot.n \div Milli) + 1]

\* a save call to a valid slot of a working store returns a record holding
\* the given state and calls setItem exactly once, for the key of the slot
SaveWritesOnce(call, result, calls) ==
  /\ result.t = "object"
  /\ Get(result, "planetState") = call.planetState
  /\ SetItems(calls) = <<Access("setItem", getSlotKey(call.slot))>>

\* a listing that follows a save that went through reports its slot available
ListedAvailable ==
  pc = "saved" /\ ~IsThrow(output) /\ ~storage.noop /\ pc' = "listed" =>
    /\ Get(ListedFor(input, output'), "slot") = input.slot
    /\ Get(ListedFor(input, output'), "status") = Str("available")

\* C14 as stated: with a working store, a save to a valid slot, whatever the
\* slot holds and whatever the options, returns a record without a data
\* error, writes exactly once to the key of the slot, and a listing that
\* follows reports the slot as available.
C14_Original ==
  [][/\ pc' = "saved" /\ input'.slot \in ValidSlots /\ ~storage.noop =>
          SaveWritesOnce(input', output', accesses')
     /\ ListedAvailable]_vars

\* C14 amended: the same for a save whose timestamp option is absent or a
\* time; with a timestamp that is an Invalid Date the save raises a
\* RangeError and writes nothing.
C14_Amended ==
  [][/\ pc' = "saved" /\ input'.slot \in ValidSlots /\ ~storage.noop =>
          IF TimestampIsTime(input')
            THEN SaveWritesOnce(input', output', accesses')
            ELSE /\ IsThrow(output') /\ output'.name = "RangeError"
                 /\ SetItems(accesses') = <<>>
                 /\ storage' = storage
     /\ ListedAvailable]_vars

\* the second write is a save to slot 1 that went through
C14_Witness ==
  /\ pc = "saved" /\ ~IsThrow(output) /\ ~storage.noop
  /\ input.slot = I(1) /\ writes = MaxWrites
  /\ accesses = <<Access("getItem", getSlotKey(I(1))), Access("setItem", getSlotKey(I(1)))>>

\* nothing is stored under the key of a slot
NothingStored(store, slot) == store.noop \/ store.items[getSlotKey(slot)] = Null

\* C15: loadPlanetSaveSlot of a valid slot raises PlanetSaveSlotEmptyError
\* exactly when nothing is stored under the key of the slot; otherwise its
\* outcome, a record or an error, is that of deserializePlanetSave on the
\* stored text with the slot as expectedSlot; the store is left as it was.
C15_LoadIsDeserialize ==
  [][pc' = "loaded" /\ input'.slot \in ValidSlots =>
       /\ storage' = storage
       /\ SetItems(accesses') = <<>>
       /\ (IsThrow(output') /\ output'.name = "PlanetSaveSlotEmptyError")
            <=> NothingStored(storage, input'.slot)
       /\ ~NothingStored(storage, input'.slot) =>
            output' = deserializePlanetSave(storage.items[getSlotKey(input'.slot)],
                                            [expectedSlot |-> input'.slot])]_vars

\* slot 0 holds a record that names slot 1 and its load reports it corrupted
C15_Witness ==
  /\ pc = "loaded" /\ input.slot = I(0)
  /\ ~IsThrow(deserializePlanetSave(storage.items[getSlotKey(I(0))], [expectedSlot |-> Undef]))
  /\ IsThrow(output) /\ output.name = "PlanetSaveCorruptedError"

\* a step clears a valid slot
ClearsSlot == pc' = "cleared" /\ input'.slot \in ValidSlots

\* the state follows a clear of a valid slot
Cleared == pc = "cleared" /\ input.slot \in ValidSlots

\* C16: clearPlanetSaveSlot of a valid slot raises nothing, leaves the store
\* as it was when the slot holds nothing, leaves the items of the other slots
\* as they were, and leaves nothing under the key of the slot; a listing that
\* follows reports the slot empty and a load of the slot that follows raises
\* PlanetSaveSlotEmptyError.
C16_ClearEmpties ==
  [][/\ ClearsSlot =>
          /\ output' = Undef
          /\ NothingStored(storage, input'.slot) => storage' = storage
          /\ \A key \in SlotKeys \ {getSlotKey(input'.slot)} :
               storage'.items[key] = storage.items[key]
          /\ NothingStored(storage', input'.slot)
          /\ SetItems(accesses') = <<>>
     /\ Cleared /\ pc' = "listed" =>
          Get(ListedFor(input, output'), "status") = Str("empty")
     /\ Cleared /\ pc' = "loaded" /\ input'.slot = input.slot =>
          output' = Throw("PlanetSaveSlotEmptyError", "Save slot is empty")
     /\ Cleared /\ ClearsSlot /\ input'.slot = input.slot => storage' = storage]_vars

\* slot 1 was cleared of an item while another slot keeps its item
C16_Witness ==
  /\ Cleared /\ input.slot = I(1) /\ output = Undef
  /\ writes = MaxWrites
  /\ storage.items[getSlotKey(I(1))] = Null
  /\ storage.items[getSlotKey(I(0))] # Null
  /\ storage.items[getSlotKey(I(2))] = Null

\* the status the text stored for a slot calls for
StatusFor(store, slot) ==
  IF NothingStored(store, slot) THEN "empty"
  ELSE IF ~IsThrow(deserializePlanetSave(store.items[getSlotKey(slot)], [expectedSlot |-> slot]))
  THEN "available"
  ELSE IF deserializePlanetSave(store.items[getSlotKey(slot)], [expectedSlot |-> slot]).name
            = "PlanetSaveCorruptedError"
  THEN "corrupted"
  ELSE IF deserializePlanetSave(store.items[getSlotKey(slot)], [expectedSlot |-> slot]).name
            \in {"PlanetSaveUnsupportedVersionError", "PlanetSaveIncompatibleError"}
  THEN "incompatible"
  ELSE "error"

\* an available summary carries the metadata and planetStateVersion parsed
CarriesParsed(summary, save) ==
  /\ Get(summary, "metadata") = Get(save, "metadata")
  /\ Get(summary, "planetStateVersion") = Get(save, "planetStateVersion")

\* summaries classifies every slot of store by its stored text
Classified(store, summaries) ==
  /\ summaries.t = "array"
  /\ Len(summaries.a) = SAVE_SLOT_COUNT
  /\ \A i \in 1..SAVE_SLOT_COUNT :
       /\ Get(summaries.a[i], "slot") = I(i - 1)
       /\ Get(summaries.a[i], "status") = Str(StatusFor(store, I(i - 1)))
       /\ StatusFor(store, I(i - 1)) = "available" =>
            CarriesParsed(summaries.a[i],
                          deserializePlanetSave(store.items[getSlotKey(I(i - 1))],
                                                [expectedSlot |-> I(i - 1)]))

\* C17: listPlanetSaveSlots returns SAVE_SLOT_COUNT summaries with
\* summaries[i].slot = i, raises nothing and leaves the store as it was; a
\* slot with nothing stored is empty, one whose text gives a Corrupted error
\* is corrupted, one whose text gives an UnsupportedVersion or Incompatible
\* error is incompatible, and one whose text parses with expectedSlot = i is
\* available and carries the parsed metadata and planetStateVersion.
C17_ListClassifies ==
  [][pc' = "listed" =>
       /\ storage' = storage
       /\ SetItems(accesses') = <<>>
       /\ Classified(storage, output')]_vars

\* slot 0 holds text that is not JSON, slot 1 a record, slot 2 nothing
C17_Witness ==
  /\ pc = "listed" /\ output.t = "array"
  /\ storage.items[getSlotKey(I(0))] = Str("not-json")
  /\ Get(output.a[1], "status") = Str("corrupted")
  /\ Get(output.a[2], "status") = Str("available")
  /\ Get(output.a[3], "status") = Str("empty")

\* Date.parse of the updatedAt of an available summary
UpdatedAt(summary) == DateParseValue(Get(Get(summary, "metadata"), "updatedAt"))

\* the indices of the available summaries
AvailableIn(summaries) ==
  {i \in 1..Len(summaries) : Get(summaries[i], "status") = Str("available")}

\* found is null when no summary is available; otherwise it is the available
\* summary none is more recent than, the first of those as recent as it
MostRecentOf(summaries, found) ==
  /\ found = Null <=> AvailableIn(summaries) = {}
  /\ found # Null =>
       \E i \in AvailableIn(summaries) :
         /\ found = summaries[i]
         /\ \A j \in AvailableIn(summaries) :
              /\ ~NumLT(UpdatedAt(summaries[i]), UpdatedAt(summaries[j]))
              /\ UpdatedAt(summaries[j]) = UpdatedAt(summaries[i]) => i <= j

\* C18: findMostRecentValidSaveSlot returns null exactly when no slot is
\* available; otherwise it returns the available summary with the greatest
\* updatedAt, the one of the lowest slot among those of equal greatest
\* updatedAt; it returns no empty, corrupted or incompatible summary.
C18_MostRecentAvailable ==
  [][pc' = "found" =>
       /\ storage' = storage
       /\ MostRecentOf(listPlanetSaveSlots(storage).result.a, output')]_vars

\* slots 0 and 2 hold records of the same updatedAt and slot 0 is returned
C18_Witness ==
  /\ pc = "found" /\ output # Null
  /\ AvailableIn(listPlanetSaveSlots(storage).result.a) = {1, 3}
  /\ UpdatedAt(listPlanetSaveSlots(storage).result.a[1]) =
       UpdatedAt(listPlanetSaveSlots(storage).result.a[3])
  /\ Get(output, "slot") = I(0)

---------------------------------------------------------------------------
(* Claims about the ranges and the lists of the planet state, checked      *)
(* under SpecPlanet                                                        *)

\* lo <= x <= hi for a number x and integers lo, hi
InRange(x, lo, hi) ==
  x.t = "number" /\ x.k = "fin" /\ lo * Milli <= x.n /\ x.n <= hi * Milli

DeclaredTechLevels ==
  {Str(l) : l \in {"none", "tribal", "agrarian", "industrial", "digital", "spacefaring"}}

PlateTypes == {Str("continental"), Str("oceanic")}

PopulationKinds == {Str("outpost"), Str("settlement"), Str("city")}

CoordinatesInRange(coordinates) ==
  /\ InRange(Get(coordinates, "latitude"), -90, 90)
  /\ InRange(Get(coordinates, "longitude"), -180, 180)

AtmosphereInRange(atmosphere) ==
  \A i \in DOMAIN Get(atmosphere, "gases").a :
    InRange(Get(Get(atmosphere, "gases").a[i], "percentage"), 0, 100)

GeologyInRange(geology) ==
  /\ InRange(Get(geology, "volcanismIndex"), 0, 1)
  /\ Get(Get(geology, "heightField"), "unit") = Str("meters")
  /\ \A i \in DOMAIN Get(geology, "plates").a :
       /\ InRange(Get(Get(geology, "plates").a[i], "areaFraction"), 0, 1)
       /\ Get(Get(geology, "plates").a[i], "type") \in PlateTypes

HydrologyInRange(hydrology) ==
  /\ InRange(Get(hydrology, "oceanCoverage"), 0, 1)
  /\ InRange(Get(Get(hydrology, "iceCaps"), "northCoverageFraction"), 0, 1)
  /\ InRange(Get(Get(hydrology, "iceCaps"), "southCoverageFraction"), 0, 1)
  /\ \A i \in DOMAIN Get(Get(hydrology, "rivers"), "systems").a :
       /\ CoordinatesInRange(Get(Get(Get(hydrology, "rivers"), "systems").a[i], "source"))
       /\ CoordinatesInRange(Get(Get(Get(hydrology, "rivers"), "systems").a[i], "mouth"))

BiosphereInRange(biosphere) ==
  /\ InRange(Get(biosphere, "biodiversityIndex"), 0, 1)
  /\ \A i \in DOMAIN Get(Get(biosphere, "biomeMap"), "cells").a :
       InRange(Get(Get(Get(biosphere, "biomeMap"), "cells").a[i], "biodiversity"), 0, 1)

CivilizationInRange(civilization) ==
  /\ InRange(Get(civilization, "pollutionIndex"), 0, 1)
  /\ Get(civilization, "techLevel") \in DeclaredTechLevels
  /\ \A i \in DOMAIN Get(civilization, "populations").a :
       /\ AtLeast(Get(Get(civilization, "populations").a[i], "population"), 0)
       /\ Get(Get(civilization, "populations").a[i], "kind") \in PopulationKinds
       /\ CoordinatesInRange(Get(Get(civilization, "populations").a[i], "coordinates"))

ClimateInRange(climate) ==
  /\ InRange(Get(climate, "axialTiltDegrees"), 0, 90)
  /\ InRange(Get(climate, "albedo"), 0, 1)
  /\ AtLeast(Get(climate, "greenhouseMultiplier"), 0)
  /\ AtLeast(Get(climate, "currentTime"), 0)
  /\ AtLeast(Get(climate, "yearLength"), 1)

\* the number of lo..hi nearest to the number x
NearestIn(x, lo, hi) ==
  IF x.k = "big" \/ x.n > hi * Milli THEN I(hi) ELSE IF x.n < lo * Milli THEN I(lo) ELSE x

\* the number at or above lo nearest to the number x
NearestAbove(x, lo) == IF x.k = "fin" /\ x.n < lo * Milli THEN I(lo) ELSE x

\* the top-level fields with a range: hi = -1 stands for no upper bound
RangedFields ==
  {[section |-> "geology", field |-> "volcanismIndex", lo |-> 0, hi |-> 1],
   [section |-> "hydrology", field |-> "oceanCoverage", lo |-> 0, hi |-> 1],
   [section |-> "biosphere", field |-> "biodiversityIndex", lo |-> 0, hi |-> 1],
   [section |-> "civilization", field |-> "pollutionIndex", lo |-> 0, hi |-> 1],
   [section |-> "climate", field |-> "axialTiltDegrees", lo |-> 0, hi |-> 90],
   [section |-> "climate", field |-> "albedo", lo |-> 0, hi |-> 1],
   [section |-> "climate", field |-> "greenhouseMultiplier", lo |-> 0, hi |-> -1],
   [section |-> "climate", field |-> "currentTime", lo |-> 0, hi |-> -1],
   [section |-> "climate", field |-> "yearLength", lo |-> 1, hi |-> -1]}

\* the value the input gives a field of a section
Raw(section, field) == OptGet(OptGet(Parsed, section), field)

\* a number the input gives a ranged field comes out as the nearest number of
\* the range
NearestKept(state) ==
  \A r \in RangedFields :
    Raw(r.section, r.field).t = "number" /\ Raw(r.section, r.field).k # "nonfinite" =>
      Get(Get(state, r.section), r.field) =
        IF r.hi = -1 THEN NearestAbove(Raw(r.section, r.field), r.lo)
        ELSE NearestIn(Raw(r.section, r.field), r.lo, r.hi)

\* a declared techLevel is kept and every other one becomes 'none'
TechLevelKept(state) ==
  OptGet(Parsed, "civilization").t = "object" =>
    Get(Get(state, "civilization"), "techLevel") =
      IF Raw("civilization", "techLevel") \in DeclaredTechLevels
      THEN Raw("civilization", "techLevel") ELSE Str("none")

\* C19: in every state deserializePlanetState returns, fractions and indices
\* lie in 0..1, gas percentages in 0..100, the axial tilt in 0..90, latitudes
\* in -90..90, longitudes in -180..180, greenhouse multiplier, current time
\* and populations are at least 0 and the year length at least 1, and the
\* enumerated fields hold declared values; a number given for a ranged field
\* comes out as the nearest number of the range, itself when it is in range,
\* and a techLevel that is not declared comes out as 'none'.
C19_FieldsInRange ==
  Returned /\ ~IsThrow(output) =>
    /\ AtmosphereInRange(Get(output, "atmosphere"))
    /\ GeologyInRange(Get(output, "geology"))
    /\ HydrologyInRange(Get(output, "hydrology"))
    /\ BiosphereInRange(Get(output, "biosphere"))
    /\ CivilizationInRange(Get(output, "civilization"))
    /\ ClimateInRange(Get(output, "climate"))
    /\ NearestKept(output)
    /\ TechLevelKept(output)

\* an albedo of 5 came out as 1
C19_Witness ==
  /\ Returned /\ ~IsThrow(output)
  /\ Raw("climate", "albedo") = I(5)
  /\ Get(Get(output, "climate"), "albedo") = I(1)

\* an entry is an object whose property key is a string that is not blank
HasNonBlank(entry, key) ==
  /\ entry.t = "object"
  /\ Get(entry, key).t = "string"
  /\ TrimmedLength(Get(entry, key)) > 0

\* the entries of a list that have an id
WithId(entries) == SelectSeq(entries, LAMBDA entry : HasNonBlank(entry, "id"))

\* the entries of a gas list that name a gas and give a number for it
ValidGases(entries) ==
  SelectSeq(entries, LAMBDA entry : /\ HasNonBlank(entry, "gas")
                                    /\ Get(entry, "percentage").t = "number"
                                    /\ Get(entry, "percentage").k # "nonfinite")

\* the list the input gives under a section
RawList(section, field) == Raw(section, field).a

\* the river systems the input gives
RawSystems == OptGet(Raw("hydrology", "rivers"), "systems")

PlatesKept(plates) ==
  Raw("geology", "plates").t = "array" =>
    /\ plates = Arr([i \in DOMAIN WithId(RawList("geology", "plates")) |->
                       normalizeTectonicPlate(WithId(RawList("geology", "plates"))[i])])
    /\ \A i \in DOMAIN plates.a :
         Get(plates.a[i], "id") = Get(WithId(RawList("geology", "plates"))[i], "id")

SystemsKept(systems) ==
  RawSystems.t = "array" =>
    /\ systems = Arr([i \in DOMAIN WithId(RawSystems.a) |->
                        normalizeRiverSystem(WithId(RawSystems.a)[i])])
    /\ \A i \in DOMAIN systems.a :
         Get(systems.a[i], "id") = Get(WithId(RawSystems.a)[i], "id")

PopulationsKept(populations) ==
  Raw("civilization", "populations").t = "array" =>
    /\ populations =
         Arr([i \in DOMAIN WithId(RawList("civilization", "populations")) |->
                normalizePopulationCenter(WithId(RawList("civilization", "populations"))[i])])
    /\ \A i \in DOMAIN populations.a :
         Get(populations.a[i], "id") =
           Get(WithId(RawList("civilization", "populations"))[i], "id")

GasesKept(gases) ==
  Raw("atmosphere", "gases").t = "array" =>
    IF ValidGases(RawList("atmosphere", "gases")) = <<>>
    THEN gases = Get(createDefaultAtmosphereState, "gases")
    ELSE /\ gases = Arr([i \in DOMAIN ValidGases(RawList("atmosphere", "gases")) |->
                           normalizeAtmosphericGas(ValidGases(RawList("atmosphere", "gases"))[i])])
         /\ \A i \in DOMAIN gases.a :
              Get(gases.a[i], "gas") = Get(ValidGases(RawList("atmosphere", "gases"))[i], "gas")

\* C20: when a section of the input is an object whose list is an array, the
\* plates, river systems and population centers returned are, in the order
\* of the input, the normalized entries that are objects with a string id
\* that is not blank, the other entries being dropped; the gases returned are
\* likewise the normalized entries with a gas name that is not blank and a
\* number for percentage, or the default mix when there is no such entry.
C20_ListsKeepEntriesWithId ==
  Returned /\ ~IsThrow(output) =>
    /\ PlatesKept(Get(Get(output, "geology"), "plates"))
    /\ SystemsKept(Get(Get(Get(output, "hydrology"), "rivers"), "systems"))
    /\ PopulationsKept(Get(Get(output, "civilization"), "populations"))
    /\ GasesKept(Get(Get(output, "atmosphere"), "gases"))

\* of three plates the one with an empty id is dropped and the two around it
\* are returned in their order
C20_Witness ==
  /\ Returned /\ ~IsThrow(output)
  /\ Raw("geology", "plates") = Arr(Window(PlatePattern, 1, 3))
  /\ Len(Get(Get(output, "geology"), "plates").a) = 2
  /\ Get(Get(Get(output, "geology"), "plates").a[1], "id") = Str("plate-alpha")
  /\ Get(Get(Get(output, "geology"), "plates").a[2], "id") = Str("plate-beta")

---------------------------------------------------------------------------
(* noise.ts: the permutation table *)

\* a % b of JavaScript for b > 0: the sign is that of a
Remainder(a, b) == IF a >= 0 THEN a % b ELSE -((-a) % b)

\* (a * 9301) % 233280 for a >= 0; the product is taken in two halves, which
\* keeps it within the 32 bits of TLC's integers
TimesMultiplier(a) == ((((a % 233280) * 4650) % 233280) * 2 + (a % 233280)) % 233280

\* state = (state * 9301 + 49297) % 233280
nextState(state) ==
  IF state >= 0 THEN (TimesMultiplier(state) + 49297) % 233280
  ELSE IF -state <= 5 THEN 49297 + state * 9301
  ELSE -((TimesMultiplier(-state) + 233280 - 49297) % 233280)

\* Math.floor((state / 233280) * (i + 1))
swapIndex(state, i) == (state * (i + 1)) \div 233280

\* permutation[i] and permutation[j] exchanged, in a Uint8Array: the element
\* at an index outside the array reads undefined, which is stored as 0, and a
\* store at an index outside the array does nothing
swap(permutation, i, j) ==
  IF j \in DOMAIN permutation
  THEN [permutation EXCEPT ![i] = permutation[j], ![j] = permutation[i]]
  ELSE [permutation EXCEPT ![i] = 0]

\* one round of the shuffle loop, at index i: the state is advanced and
\* permutation[i] exchanged with the element the state picks
shuffleStep(round, i) ==
  [permutation |-> swap(round.permutation, i, swapIndex(nextState(round.state), i)),
   state |-> nextState(round.state)]

RECURSIVE shuffle(_, _, _)
RECURSIVE shuffleOn(_, _, _)
\* the rounds of the shuffle loop from index first down to index last: those
\* of the upper half of the indices, then those of the lower half
shuffle(round, first, last) ==
  IF first = last THEN shuffleStep(round, first)
  ELSE shuffleOn(shuffle(round, first, ((first + last) \div 2) + 1), (first + last) \div 2, last)

\* the loop goes on from round; reading the state of round first has TLC
\* work out the rounds before it, which keeps its evaluation stack shallow
shuffleOn(round, first, last) ==
  IF round.state \in Int THEN shuffle(round, first, last) ELSE round

\* P once the permutation is copied into both halves
duplicate(permutation) == [i \in 0..511 |-> permutation[i % 256]]

\* the table after initializePermutation(seed)
initializePermutation(seed) ==
  duplicate(shuffle([permutation |-> [k \in 0..255 |-> k], state |-> seed], 255, 1).permutation)

initNoise(seed) == initializePermutation(seed)

---------------------------------------------------------------------------
(* SpecNoise: initNoise called with one seed after another *)

\* the largest magnitude of the small seeds
MaxSeed == 50

\* the seeds given: the small integers, the default seed of the terrain
\* store and the largest seed its randomizeSeed gives
Seeds == (-MaxSeed..MaxSeed) \cup {12345, 999999}

InitNoiseTable ==
  /\ P = [i \in 0..511 |-> 0]
  /\ input = Undef
  /\ output = Undef
  /\ pc = "ready"
  /\ storage = <<>>
  /\ saved = Undef
  /\ writes = 0
  /\ accesses = <<>>
  /\ BusIdle
  /\ SchedulerIdle
  /\ StoreIdle
  /\ LoopIdle

\* initNoise(seed)
InitNoise ==
  \E seed \in Seeds :
    /\ P' = initNoise(seed)
    /\ input' = seed
    /\ output' = Undef
    /\ pc' = "seeded"
    /\ UNCHANGED <<slotVars, busVars, schedulerVars, storeVars, loopVars>>

NextNoise == InitNoise

SpecNoise == InitNoiseTable /\ [][NextNoise]_vars

---------------------------------------------------------------------------
(* Claims about the noise table, checked under SpecNoise *)

\* C21: after initNoise(seed), for every integer seed, the first 256 entries
\* of the table hold each of 0..255 exactly once, entries 256..511 repeat
\* entries 0..255, and the table is the one the seed gives whatever the
\* table held before.
C21_TableIsPermutation ==
  pc = "seeded" =>
    /\ {P[i] : i \in 0..255} = 0..255
    /\ \A i \in 0..255 : P[i + 256] = P[i]
    /\ P = initializePermutation(input)

---------------------------------------------------------------------------
(* eventBus.ts: listeners[event] is the Set of the listeners of event in    *)
(* the order they were added, <<>> where the Map holds no Set for event     *)

\* a list of listeners that takes a listener as often as it is added
on_Twice(bus, event, listener) == [bus EXCEPT ![event] = Append(bus[event], listener)]

\* set.add(listener) on the Set of event
on(bus, event, listener) ==
  IF \E i \in DOMAIN bus[event] : bus[event][i] = listener THEN bus
  ELSE [bus EXCEPT ![event] = Append(bus[event], listener)]

\* set.delete(listener), and listeners.delete(event) once the Set is empty
off(bus, event, listener) ==
  [bus EXCEPT ![event] = SelectSeq(bus[event], LAMBDA l : l # listener)]

\* clear(event), clear() for an event that is undefined
clear(bus, event) ==
  IF event = "undefined" THEN [e \in DOMAIN bus |-> <<>>]
  ELSE [bus EXCEPT ![event] = <<>>]

\* the listeners emit(event, payload) calls, in the order of the calls
emit(bus, event) == bus[event]

---------------------------------------------------------------------------
(* SpecBus: on, off, unsubscribe, clear and emit on one event bus *)

Events == {"tick", "state"}

\* the listeners subscribed, and one that never is
Listeners == {"first", "second"}

UnknownListener == "unknown"

InitBus ==
  /\ listeners = [event \in Events |-> <<>>]
  /\ unsubscribes = {}
  /\ subscribed = {}
  /\ invoked = <<>>
  /\ input = Undef
  /\ output = Undef
  /\ pc = "ready"
  /\ storage = <<>>
  /\ saved = Undef
  /\ writes = 0
  /\ accesses = <<>>
  /\ P = <<>>
  /\ SchedulerIdle
  /\ StoreIdle
  /\ LoopIdle

\* unsubscribe = bus.on(event, listener)
On ==
  \E event \in Events, listener \in Listeners :
    /\ listeners' = on(listeners, event, listener)
    /\ unsubscribes' = unsubscribes \cup {<<event, listener>>}
    /\ subscribed' = subscribed \cup {<<event, listener>>}
    /\ invoked' = <<>>
    /\ input' = [op |-> "on", event |-> event, listener |-> listener]
    /\ output' = Undef
    /\ pc' = "subscribed"
    /\ UNCHANGED <<slotVars, noiseVars, schedulerVars, storeVars, loopVars>>

\* bus.off(event, listener)
Off ==
  \E event \in Events, listener \in Listeners \cup {UnknownListener} :
    /\ listeners' = off(listeners, event, listener)
    /\ subscribed' = subscribed \ {<<event, listener>>}
    /\ invoked' = <<>>
    /\ input' = [op |-> "off", event |-> event, listener |-> listener]
    /\ output' = Undef
    /\ pc' = "removed"
    /\ UNCHANGED <<slotVars, noiseVars, schedulerVars, storeVars, loopVars, unsubscribes>>

\* a function that bus.on returned is called
Unsubscribe ==
  \E unsubscribe \in unsubscribes :
    /\ listeners' = off(listeners, unsubscribe[1], unsubscribe[2])
    /\ subscribed' = subscribed \ {unsubscribe}
    /\ invoked' = <<>>
    /\ input' = [op |-> "unsubscribe", event |-> unsubscribe[1], listener |-> unsubscribe[2]]
    /\ output' = Undef
    /\ pc' = "removed"
    /\ UNCHANGED <<slotVars, noiseVars, schedulerVars, storeVars, loopVars, unsubscribes>>

\* bus.clear(event), bus.clear()
Clear ==
  \E event \in Events \cup {"undefined"} :
    /\ listeners' = clear(listeners, event)
    /\ subscribed' = IF event = "undefined" THEN {}
                     ELSE {subscription \in subscribed : subscription[1] # event}
    /\ invoked' = <<>>
    /\ input' = [op |-> "clear", event |-> event]
    /\ output' = Undef
    /\ pc' = "cleared"
    /\ UNCHANGED <<slotVars, noiseVars, schedulerVars, storeVars, loopVars, unsubscribes>>

\* bus.emit(event, payload)
Emit ==
  \E event \in Events :
    /\ invoked' = emit(listeners, event)
    /\ input' = [op |-> "emit", event |-> event]
    /\ output' = Undef
    /\ pc' = "emitted"
    /\ UNCHANGED <<slotVars, noiseVars, schedulerVars, storeVars, loopVars, listeners, unsubscribes, subscribed>>

NextBus == On \/ Off \/ Unsubscribe \/ Clear \/ Emit

SpecBus == InitBus /\ [][NextBus]_vars

---------------------------------------------------------------------------
(* Claims about the event bus, checked under SpecBus *)

\* the number of calls of listener among calls
TimesInvoked(calls, listener) == Len(SelectSeq(calls, LAMBDA l : l = listener))

\* the listeners subscribed to event: those added by on and not removed
\* since by their unsubscribe function, off, clear(event) or clear()
SubscribedTo(event) == {listener \in Listeners : <<event, listener>> \in subscribed}

---------------------------------------------------------------------------
(* The tick scheduler: createTickScheduler *)

\* Clock times, deltas and fixedDeltaMs are whole milliseconds. A speed
\* multiplier is held in thousandths (0.5x is 500, 1x is 1000), so the
\* accumulator, which sums delta * speed, is held in thousandths of a
\* millisecond and compared with fixedDeltaMs * Milli.

DEFAULT_FIXED_DELTA_MS == 50

DEFAULT_FRAME_INTERVAL_MS == 16

DEFAULT_MAX_STEPS_PER_FRAME == 200

DEFAULT_SIMULATION_SPEEDS ==
  <<[label |-> "1x", multiplier |-> 1 * Milli],
    [label |-> "5x", multiplier |-> 5 * Milli],
    [label |-> "20x", multiplier |-> 20 * Milli]>>

\* options.name ?? default
Option(options, name, default) ==
  IF name \in DOMAIN options THEN options[name] ELSE default

Min(a, b) == IF a <= b THEN a ELSE b

Max(a, b) == IF a >= b THEN a ELSE b

\* new Set(speedOptions.map((option) => option.multiplier))
multipliersOf(speedOptions) ==
  {speedOptions[i].multiplier : i \in DOMAIN speedOptions}

\* the scheduler the checks of createTickScheduler let through, before its
\* first emitState(): the constants taken from the options and the locals
\* running .. timerHandle. lastTime is <<>> for null and <<time>> otherwise,
\* timerHandle is "null" or the handle "timer" of the one timer that is set.
\* bus holds the listeners per event, in the order bus.emit calls them;
\* emitted records what the bus was asked to emit during the current call,
\* and delivered the calls of the store's listeners it led to, in the order
\* they were made.
schedulerOf(fixedDeltaMs, speedOptions, initialSpeed, options) ==
  [fixedDeltaMs |-> fixedDeltaMs,
   frameIntervalMs |->
     Max(0, Option(options, "frameIntervalMs", Min(DEFAULT_FRAME_INTERVAL_MS, fixedDeltaMs))),
   maxStepsPerFrame |->
     Max(1, Option(options, "maxStepsPerFrame", DEFAULT_MAX_STEPS_PER_FRAME)),
   speedOptions |-> speedOptions,
   running |-> FALSE,
   speed |-> initialSpeed,
   lastTime |-> <<>>,
   accumulator |-> 0,
   frame |-> 0,
   elapsedMs |-> 0,
   timerHandle |-> "null",
   bus |-> [event \in Events |-> <<>>],
   emitted |-> <<>>,
   delivered |-> <<>>]

getState(scheduler) == [running |-> scheduler.running, speed |-> scheduler.speed]

getSpeeds(scheduler) == scheduler.speedOptions

getFixedDeltaMs(scheduler) == scheduler.fixedDeltaMs

\* the record of one bus.emit(event, payload): the listeners it calls, and
\* whether the scheduler was running when it was made
emission(scheduler, event, payload) ==
  [event |-> event,
   payload |-> payload,
   to |-> emit(scheduler.bus, event),
   running |-> scheduler.running]

\* the listeners a scheduler can have: the two of the simulation store, which
\* write to the store and leave the scheduler alone, a tick listener that
\* calls pause() on every tick, and a state listener that calls pause()
\* whenever it is told the scheduler is running
StoreListeners == {"storeState", "storeTick"}

PauseOnTick == "pauseOnTick"

PauseWhenRunning == "pauseWhenRunning"

RECURSIVE pause(_)
RECURSIVE emitState(_)
RECURSIVE busEmit(_, _, _)
RECURSIVE deliver(_, _, _, _)
RECURSIVE call(_, _, _)

\* listener(payload), as far as it acts on the scheduler
call(scheduler, listener, payload) ==
  IF listener \in StoreListeners
  THEN [scheduler EXCEPT !.delivered = Append(@, [listener |-> listener, payload |-> payload])]
  ELSE IF listener = PauseOnTick THEN pause(scheduler)
  ELSE IF listener = PauseWhenRunning /\ payload.running THEN pause(scheduler)
  ELSE scheduler

\* the loop of bus.emit over the listeners the event had when emit began
deliver(scheduler, to, payload, i) ==
  IF i > Len(to) THEN scheduler
  ELSE deliver(call(scheduler, to[i], payload), to, payload, i + 1)

\* bus.emit(event, payload)
busEmit(scheduler, event, payload) ==
  deliver([scheduler EXCEPT !.emitted = Append(@, emission(scheduler, event, payload))],
          emit(scheduler.bus, event), payload, 1)

emitState(scheduler) == busEmit(scheduler, "state", getState(scheduler))

scheduleLoop(scheduler) ==
  IF ~scheduler.running \/ scheduler.timerHandle # "null" THEN scheduler
  ELSE [scheduler EXCEPT !.timerHandle = "timer"]

pause(scheduler) ==
  IF ~scheduler.running THEN scheduler
  ELSE emitState([scheduler EXCEPT !.running = FALSE,
                                   !.timerHandle = "null",
                                   !.lastTime = <<>>])

play(scheduler, now) ==
  IF scheduler.running THEN scheduler
  ELSE scheduleLoop(emitState([scheduler EXCEPT !.running = TRUE, !.lastTime = <<now>>]))

toggle(scheduler, now) ==
  IF scheduler.running THEN pause(scheduler) ELSE play(scheduler, now)

\* the error setSpeed throws for a multiplier that is not an option; its
\* message ends with the multiplier
UnsupportedSpeed(multiplier) ==
  Throw("Error", "Unsupported speed multiplier")

setSpeedThrows(scheduler, multiplier) ==
  multiplier \notin multipliersOf(scheduler.speedOptions)

\* setSpeed(multiplier) where it does not throw
setSpeed(scheduler, multiplier) ==
  IF setSpeedThrows(scheduler, multiplier) THEN scheduler
  ELSE IF multiplier = scheduler.speed THEN scheduler
  ELSE emitState([scheduler EXCEPT !.speed = multiplier])

step_SkipsFrame(scheduler, activeSpeed) ==
  busEmit([scheduler EXCEPT !.accumulator = @ - scheduler.fixedDeltaMs * Milli,
                            !.frame = @ + 2,
                            !.elapsedMs = @ + scheduler.fixedDeltaMs],
          "tick",
          [frame |-> scheduler.frame + 2,
           fixedDeltaMs |-> scheduler.fixedDeltaMs,
           elapsedMs |-> scheduler.elapsedMs + scheduler.fixedDeltaMs,
           speed |-> activeSpeed])

\* one pass of the body of the while loop in loop()
step(scheduler, activeSpeed) ==
  busEmit([scheduler EXCEPT !.accumulator = @ - scheduler.fixedDeltaMs * Milli,
                            !.frame = @ + 1,
                            !.elapsedMs = @ + scheduler.fixedDeltaMs],
          "tick",
          [frame |-> scheduler.frame + 1,
           fixedDeltaMs |-> scheduler.fixedDeltaMs,
           elapsedMs |-> scheduler.elapsedMs + scheduler.fixedDeltaMs,
           speed |-> activeSpeed])

\* the rest of loop() once the while loop has ended after steps passes
afterSteps(scheduler, steps) ==
  scheduleLoop(
    IF steps = scheduler.maxStepsPerFrame
       /\ scheduler.accumulator >= scheduler.fixedDeltaMs * Milli
    THEN [scheduler EXCEPT !.accumulator = @ % (scheduler.fixedDeltaMs * Milli)]
    ELSE scheduler)

RECURSIVE whileSteps(_, _, _)

\* the while loop of loop(), steps passes made
whileSteps(scheduler, activeSpeed, steps) ==
  IF scheduler.accumulator >= scheduler.fixedDeltaMs * Milli
     /\ steps < scheduler.maxStepsPerFrame
  THEN whileSteps(step(scheduler, activeSpeed), activeSpeed, steps + 1)
  ELSE afterSteps(scheduler, steps)

loop_Unscaled(scheduler, now) ==
  IF ~scheduler.running THEN scheduler
  ELSE IF scheduler.lastTime = <<>>
  THEN scheduleLoop([scheduler EXCEPT !.lastTime = <<now>>])
  ELSE IF now - scheduler.lastTime[1] <= 0
  THEN scheduleLoop([scheduler EXCEPT !.lastTime = <<now>>])
  ELSE whileSteps([scheduler EXCEPT !.lastTime = <<now>>,
                                    !.accumulator = @ + (now - scheduler.lastTime[1]) * Milli],
                  scheduler.speed, 0)

\* loop(), which the timer calls
loop(scheduler, now) ==
  IF ~scheduler.running THEN scheduler
  ELSE IF scheduler.lastTime = <<>>
  THEN scheduleLoop([scheduler EXCEPT !.lastTime = <<now>>])
  ELSE IF now - scheduler.lastTime[1] <= 0
  THEN scheduleLoop([scheduler EXCEPT !.lastTime = <<now>>])
  ELSE whileSteps([scheduler EXCEPT !.lastTime = <<now>>,
                                    !.accumulator = @ + (now - scheduler.lastTime[1]) * scheduler.speed],
                  scheduler.speed, 0)

\* the callback given to timer.set
timerCallback(scheduler, now) == loop([scheduler EXCEPT !.timerHandle = "null"], now)

onTick(scheduler, listener) ==
  [scheduler EXCEPT !.bus = on(scheduler.bus, "tick", listener)]

subscribeState(scheduler, listener) ==
  [scheduler EXCEPT !.bus = on(scheduler.bus, "state", listener)]

onStateChange(scheduler, listener) ==
  subscribeState(call(scheduler, listener, getState(scheduler)), listener)

resetCounters(scheduler) ==
  [scheduler EXCEPT !.accumulator = 0,
                    !.frame = 0,
                    !.elapsedMs = 0,
                    !.bus = clear(scheduler.bus, "undefined")]

dispose(scheduler) == resetCounters(pause(scheduler))

autoStart(scheduler, options, now) ==
  IF Option(options, "autoStart", FALSE) THEN play(scheduler, now) ELSE scheduler

\* createTickScheduler(options) at clock time now: the error it throws, or
\* the scheduler it returns
createTickScheduler(options, now) ==
  IF Option(options, "fixedDeltaMs", DEFAULT_FIXED_DELTA_MS) <= 0
  THEN Throw("Error", "fixedDeltaMs must be greater than zero.")
  ELSE IF Len(Option(options, "speeds", DEFAULT_SIMULATION_SPEEDS)) = 0
  THEN Throw("Error", "At least one speed option must be provided.")
  ELSE IF \E multiplier \in multipliersOf(Option(options, "speeds", DEFAULT_SIMULATION_SPEEDS)) :
            multiplier <= 0
  THEN Throw("Error", "Speed multipliers must be greater than zero.")
  ELSE IF Option(options, "initialSpeedMultiplier",
                 Option(options, "speeds", DEFAULT_SIMULATION_SPEEDS)[1].multiplier)
            \notin multipliersOf(Option(options, "speeds", DEFAULT_SIMULATION_SPEEDS))
  THEN Throw("Error", "Initial speed multiplier must be one of the configured speed options.")
  ELSE autoStart(
         emitState(
           schedulerOf(Option(options, "fixedDeltaMs", DEFAULT_FIXED_DELTA_MS),
                       Option(options, "speeds", DEFAULT_SIMULATION_SPEEDS),
                       Option(options, "initialSpeedMultiplier",
                              Option(options, "speeds", DEFAULT_SIMULATION_SPEEDS)[1].multiplier),
                       options)),
         options, now)

---------------------------------------------------------------------------
(* The specification of one tick scheduler, its clock and its timer *)

\* the name of the scheduler under observation
A == "A"

\* the options given to createTickScheduler: the defaults, an automatic
\* start, a frame that may take two steps at most, and a shorter fixed
\* delta with a faster initial speed
SchedulerOptions ==
  {[autoStart |-> FALSE],
   [autoStart |-> TRUE],
   [autoStart |-> FALSE, maxStepsPerFrame |-> 2],
   [autoStart |-> FALSE, fixedDeltaMs |-> 25, initialSpeedMultiplier |-> 5 * Milli]}

\* who listens to the scheduler: nobody, a tick listener that pauses it, or
\* a state listener that pauses it
Subscribers == {"none", PauseOnTick, PauseWhenRunning}

subscribedWith(scheduler, subscriber) ==
  IF subscriber = PauseOnTick THEN onTick(scheduler, PauseOnTick)
  ELSE IF subscriber = PauseWhenRunning THEN onStateChange(scheduler, PauseWhenRunning)
  ELSE scheduler

\* the speed options the documentation lists: 0.5x, 1x, 2x, 4x and 8x
DOCUMENTED_SIMULATION_SPEEDS ==
  <<[label |-> "0.5x", multiplier |-> Milli \div 2],
    [label |-> "1x", multiplier |-> 1 * Milli],
    [label |-> "2x", multiplier |-> 2 * Milli],
    [label |-> "4x", multiplier |-> 4 * Milli],
    [label |-> "8x", multiplier |-> 8 * Milli]>>

\* the multipliers setSpeed is called with
SpeedArguments ==
  multipliersOf(DEFAULT_SIMULATION_SPEEDS) \cup multipliersOf(DOCUMENTED_SIMULATION_SPEEDS)

\* the clock runs up to MaxClock milliseconds, in steps of ClockSteps
MaxClock == 100

ClockSteps == {25, 50}

\* the scheduler as a call finds it: nothing emitted or delivered yet
called(scheduler) == [scheduler EXCEPT !.emitted = <<>>, !.delivered = <<>>]

\* the tick events among the emissions of the last call
ticksOf(scheduler) == SelectSeq(scheduler.emitted, LAMBDA e : e.event = "tick")

\* history after a call that left the scheduler as given: ticks counts the
\* tick events emitted since the scheduler was created
recorded(scheduler, scaled, capped, disposed) ==
  [ticks |-> history.ticks + Len(ticksOf(scheduler)),
   scaled |-> history.scaled + scaled,
   capped |-> history.capped \/ capped,
   disposed |-> history.disposed \/ disposed]

InitScheduler ==
  \E options \in SchedulerOptions, subscriber \in Subscribers :
    /\ schedulers = [name \in {A} |-> subscribedWith(createTickScheduler(options, 0), subscriber)]
    /\ clock = 0
    /\ history = [ticks |-> 0, scaled |-> 0, capped |-> FALSE, disposed |-> FALSE]
    /\ input = [op |-> "createTickScheduler", options |-> options, subscriber |-> subscriber]
    /\ output = Undef
    /\ pc = "created"
    /\ storage = <<>>
    /\ saved = Undef
    /\ writes = 0
    /\ accesses = <<>>
    /\ P = <<>>
    /\ BusIdle
    /\ StoreIdle
    /\ LoopIdle

\* scheduler.play()
Play ==
  /\ schedulers' = [schedulers EXCEPT ![A] = play(called(@), clock)]
  /\ history' = recorded(schedulers'[A], 0, FALSE, FALSE)
  /\ input' = [op |-> "play"]
  /\ output' = Undef
  /\ pc' = "played"
  /\ UNCHANGED <<slotVars, noiseVars, busVars, storeVars, loopVars, clock>>

\* scheduler.pause()
Pause ==
  /\ schedulers' = [schedulers EXCEPT ![A] = pause(called(@))]
  /\ history' = recorded(schedulers'[A], 0, FALSE, FALSE)
  /\ input' = [op |-> "pause"]
  /\ output' = Undef
  /\ pc' = "paused"
  /\ UNCHANGED <<slotVars, noiseVars, busVars, storeVars, loopVars, clock>>

\* scheduler.toggle()
Toggle ==
  /\ schedulers' = [schedulers EXCEPT ![A] = toggle(called(@), clock)]
  /\ history' = recorded(schedulers'[A], 0, FALSE, FALSE)
  /\ input' = [op |-> "toggle"]
  /\ output' = Undef
  /\ pc' = "toggled"
  /\ UNCHANGED <<slotVars, noiseVars, busVars, storeVars, loopVars, clock>>

\* scheduler.setSpeed(multiplier)
SetSpeed ==
  \E multiplier \in SpeedArguments :
    /\ schedulers' = [schedulers EXCEPT ![A] = setSpeed(called(@), multiplier)]
    /\ history' = recorded(schedulers'[A], 0, FALSE, FALSE)
    /\ input' = [op |-> "setSpeed", multiplier |-> multiplier]
    /\ output' = IF setSpeedThrows(schedulers[A], multiplier)
                 THEN UnsupportedSpeed(multiplier) ELSE Undef
    /\ pc' = "speedSet"
    /\ UNCHANGED <<slotVars, noiseVars, busVars, storeVars, loopVars, clock>>

\* scheduler.getSpeeds()
GetSpeeds ==
  /\ schedulers' = [schedulers EXCEPT ![A] = called(@)]
  /\ input' = [op |-> "getSpeeds"]
  /\ output' = getSpeeds(schedulers[A])
  /\ pc' = "speedsListed"
  /\ UNCHANGED <<slotVars, noiseVars, busVars, storeVars, loopVars, clock, history>>

\* what a timer firing at the clock adds to the accumulator: the time since
\* the previous firing, or since play, times the speed
scaledDelta(scheduler, now) ==
  IF scheduler.running /\ scheduler.lastTime # <<>>
  THEN Max(0, now - scheduler.lastTime[1]) * scheduler.speed
  ELSE 0

\* a timer firing at the clock would need more than maxStepsPerFrame steps
needsMoreSteps(scheduler, now) ==
  (scheduler.accumulator + scaledDelta(scheduler, now)) \div (scheduler.fixedDeltaMs * Milli)
    > scheduler.maxStepsPerFrame

\* the timer set by scheduleLoop fires
TimerFires ==
  /\ schedulers[A].timerHandle = "timer"
  /\ schedulers' = [schedulers EXCEPT ![A] = timerCallback(called(@), clock)]
  /\ history' = recorded(schedulers'[A], scaledDelta(schedulers[A], clock),
                         needsMoreSteps(schedulers[A], clock), FALSE)
  /\ input' = [op |-> "timer"]
  /\ output' = Undef
  /\ pc' = "fired"
  /\ UNCHANGED <<slotVars, noiseVars, busVars, storeVars, loopVars, clock>>

\* time passes
AdvanceClock ==
  \E delta \in ClockSteps :
    /\ clock + delta <= MaxClock
    /\ clock' = clock + delta
    /\ schedulers' = [schedulers EXCEPT ![A] = called(@)]
    /\ input' = [op |-> "advance", delta |-> delta]
    /\ output' = Undef
    /\ pc' = "advanced"
    /\ UNCHANGED <<slotVars, noiseVars, busVars, storeVars, loopVars, history>>

\* scheduler.dispose()
Dispose ==
  /\ schedulers' = [schedulers EXCEPT ![A] = dispose(called(@))]
  /\ history' = recorded(schedulers'[A], 0, FALSE, TRUE)
  /\ input' = [op |-> "dispose"]
  /\ output' = Undef
  /\ pc' = "disposed"
  /\ UNCHANGED <<slotVars, noiseVars, busVars, storeVars, loopVars, clock>>

NextScheduler ==
  Play \/ Pause \/ Toggle \/ SetSpeed \/ GetSpeeds \/ TimerFires \/ AdvanceClock \/ Dispose

SpecScheduler == InitScheduler /\ [][NextScheduler]_vars

---------------------------------------------------------------------------
(* Claims about the tick scheduler, checked under SpecScheduler *)

\* C22: a scheduler created with default options offers the documented
\* speeds 0.5x, 1x, 2x, 4x and 8x: getSpeeds() returns exactly that list, and
\* setSpeed called with any of the five multipliers does not throw.
C22_DefaultSpeedsAsDocumented ==
  /\ pc = "speedsListed" => output = DOCUMENTED_SIMULATION_SPEEDS
  /\ pc = "speedSet" /\ input.multiplier \in multipliersOf(DOCUMENTED_SIMULATION_SPEEDS)
       => ~IsThrow(output)

TickOf(scheduler, i) == ticksOf(scheduler)[i].payload

\* C25: before dispose, whichever of play, pause, toggle, setSpeed and timer
\* firings is taken, the i-th tick it emits has the frame number that follows
\* the ticks emitted before it, counted from 1, its elapsedMs is its frame
\* times fixedDeltaMs, and its fixedDeltaMs is the configured one.
C25_FramesConsecutive ==
  [][~history'.disposed =>
       \A i \in 1..Len(ticksOf(schedulers'[A])) :
         /\ TickOf(schedulers'[A], i).frame = history.ticks + i
         /\ TickOf(schedulers'[A], i).elapsedMs =
              TickOf(schedulers'[A], i).frame * schedulers[A].fixedDeltaMs
         /\ TickOf(schedulers'[A], i).fixedDeltaMs = schedulers[A].fixedDeltaMs]_vars

\* a scheduler whose tick listener pauses it has been resumed and emits the
\* tick of frame 2
C25_Witness ==
  /\ pc = "fired"
  /\ PauseOnTick \in {schedulers[A].bus["tick"][i] : i \in DOMAIN schedulers[A].bus["tick"]}
  /\ Len(ticksOf(schedulers[A])) = 1
  /\ TickOf(schedulers[A], 1).frame = 2
  /\ history.ticks = 2
  /\ ~history.disposed

\* C26: no tick is emitted while the scheduler is not running: every tick
\* event is emitted with running true, also after a pause() made by a tick
\* listener or a state listener.
C26_NoTickWhilePaused ==
  \A i \in DOMAIN schedulers[A].emitted :
    schedulers[A].emitted[i].event = "tick" => schedulers[A].emitted[i].running

---------------------------------------------------------------------------
(* The simulation store: stores/simulationStore.ts *)

\* DEFAULT_SIMULATION_SPEEDS[0]?.multiplier ?? 1
DEFAULT_SPEED == DEFAULT_SIMULATION_SPEEDS[1].multiplier

\* lastTick is <<>> for null and <<tick>> otherwise
createDefaultSnapshot ==
  [running |-> FALSE,
   speed |-> DEFAULT_SPEED,
   speeds |-> DEFAULT_SIMULATION_SPEEDS,
   fixedDeltaMs |-> 0,
   lastTick |-> <<>>,
   frame |-> 0,
   elapsedMs |-> 0]

withHydratedSpeeds(speeds) ==
  IF Len(speeds) > 0 THEN speeds ELSE DEFAULT_SIMULATION_SPEEDS

\* the listener given to scheduler.onStateChange
storeState(current, state) ==
  IF current.running = state.running /\ current.speed = state.speed
  THEN current
  ELSE [current EXCEPT !.running = state.running, !.speed = state.speed]

\* the listener given to scheduler.onTick
storeTick(current, tick) ==
  IF current.lastTick # <<>>
     /\ current.lastTick[1].frame = tick.frame
     /\ current.lastTick[1].elapsedMs = tick.elapsedMs
  THEN current
  ELSE [current EXCEPT !.lastTick = <<tick>>,
                           !.frame = tick.frame,
                           !.elapsedMs = tick.elapsedMs]

RECURSIVE notified(_, _, _)

\* the store after the calls of its listeners from the i-th on
notified(current, delivered, i) ==
  IF i > Len(delivered) THEN current
  ELSE notified(IF delivered[i].listener = "storeState"
                THEN storeState(current, delivered[i].payload)
                ELSE storeTick(current, delivered[i].payload),
                delivered, i + 1)

\* unsubscribe?.() for a function returned by on(event, listener) of the
\* bus of the scheduler named in unsubscribe, or null (<<>>)
unsubscribed(all, unsubscribe, event, listener) ==
  IF unsubscribe = <<>> THEN all
  ELSE [all EXCEPT ![unsubscribe[1]].bus = off(@, event, listener)]

\* clearSubscriptions(), as far as it acts on the schedulers
clearSubscriptions(all) ==
  unsubscribed(unsubscribed(all, unsubscribeState, "state", "storeState"),
               unsubscribeTick, "tick", "storeTick")

\* the snapshot hydrateFromScheduler sets before it subscribes
hydratedSnapshot(scheduler) ==
  [createDefaultSnapshot EXCEPT !.running = getState(scheduler).running,
                                !.speed = getState(scheduler).speed,
                                !.speeds = withHydratedSpeeds(getSpeeds(scheduler)),
                                !.fixedDeltaMs = getFixedDeltaMs(scheduler)]

\* the scheduler after the two subscriptions of hydrateFromScheduler
hydrate(scheduler) ==
  onTick(onStateChange(called(scheduler), "storeState"), "storeTick")

---------------------------------------------------------------------------
(* The specification of the simulation store and two tick schedulers *)

B == "B"

SchedulerNames == {A, B}

\* scheduler A has default options, scheduler B a fixed delta of 25 ms and
\* starts at 5x
OptionsOf(name) ==
  IF name = A THEN [autoStart |-> FALSE]
  ELSE [autoStart |-> FALSE, fixedDeltaMs |-> 25, initialSpeedMultiplier |-> 5 * Milli]

\* somebody else may listen to scheduler A before the store does: a state
\* listener that pauses the scheduler when told it is running
ForeignListeners == {"none", PauseWhenRunning}

\* the calls made on a scheduler, directly or through the store
SchedulerCalls ==
  {[op |-> "play"], [op |-> "pause"], [op |-> "toggle"]}
    \cup {[op |-> "setSpeed", multiplier |-> multiplier] : multiplier \in {Milli \div 2, 1 * Milli, 5 * Milli}}

\* scheduler.play(), .pause(), .toggle() or .setSpeed(multiplier)
perform(scheduler, request, now) ==
  IF request.op = "play" THEN play(scheduler, now)
  ELSE IF request.op = "pause" THEN pause(scheduler)
  ELSE IF request.op = "toggle" THEN toggle(scheduler, now)
  ELSE setSpeed(scheduler, request.multiplier)

\* what the call returns or throws
resultOf(scheduler, request) ==
  IF request.op = "setSpeed" /\ setSpeedThrows(scheduler, request.multiplier)
  THEN UnsupportedSpeed(request.multiplier)
  ELSE Undef

\* the schedulers as a call finds them
allCalled(all) == [name \in DOMAIN all |-> called(all[name])]

\* the store after the calls of its listeners made by the schedulers
received(current, all) ==
  notified(notified(current, all[A].delivered, 1), all[B].delivered, 1)

MaxStoreClock == 100

InitStore ==
  \E foreign \in ForeignListeners :
    /\ schedulers = [name \in SchedulerNames |->
                       IF name = A
                       THEN subscribedWith(createTickScheduler(OptionsOf(name), 0), foreign)
                       ELSE createTickScheduler(OptionsOf(name), 0)]
    /\ clock = 0
    /\ history = <<>>
    /\ snapshot = createDefaultSnapshot
    /\ schedulerRef = <<>>
    /\ unsubscribeState = <<>>
    /\ unsubscribeTick = <<>>
    /\ detaches = {}
    /\ input = [op |-> "create", foreign |-> foreign]
    /\ output = Undef
    /\ pc = "created"
    /\ storage = <<>>
    /\ saved = Undef
    /\ writes = 0
    /\ accesses = <<>>
    /\ P = <<>>
    /\ BusIdle
    /\ LoopIdle

\* detach = store.hydrateFromScheduler(scheduler)
HydrateFromScheduler ==
  \E name \in SchedulerNames :
    /\ schedulers' = [clearSubscriptions(allCalled(schedulers)) EXCEPT ![name] = hydrate(@)]
    /\ schedulerRef' = <<name>>
    /\ snapshot' = received(hydratedSnapshot(schedulers[name]), schedulers')
    /\ unsubscribeState' = <<name>>
    /\ unsubscribeTick' = <<name>>
    /\ detaches' = detaches \cup {name}
    /\ input' = [op |-> "hydrateFromScheduler", scheduler |-> name]
    /\ output' = Undef
    /\ pc' = "hydrated"
    /\ UNCHANGED <<slotVars, noiseVars, busVars, loopVars, clock, history>>

\* a call of the function returned by hydrateFromScheduler(scheduler)
Detach ==
  \E name \in detaches :
    /\ schedulers' = clearSubscriptions(allCalled(schedulers))
    /\ unsubscribeState' = <<>>
    /\ unsubscribeTick' = <<>>
    /\ schedulerRef' = <<>>
    /\ snapshot' = createDefaultSnapshot
    /\ input' = [op |-> "detach", scheduler |-> name]
    /\ output' = Undef
    /\ pc' = "detached"
    /\ UNCHANGED <<slotVars, noiseVars, busVars, loopVars, clock, history, detaches>>

\* store.reset()
Reset ==
  /\ schedulers' = clearSubscriptions(allCalled(schedulers))
  /\ unsubscribeState' = <<>>
  /\ unsubscribeTick' = <<>>
  /\ schedulerRef' = <<>>
  /\ snapshot' = createDefaultSnapshot
  /\ input' = [op |-> "reset"]
  /\ output' = Undef
  /\ pc' = "reset"
  /\ UNCHANGED <<slotVars, noiseVars, busVars, loopVars, clock, history, detaches>>

\* store.play(), .pause(), .toggle() or .setSpeed(multiplier)
StoreAction ==
  \E request \in SchedulerCalls :
    /\ schedulers' = IF schedulerRef = <<>> THEN allCalled(schedulers)
                     ELSE [allCalled(schedulers) EXCEPT ![schedulerRef[1]] = perform(@, request, clock)]
    /\ snapshot' = received(snapshot, schedulers')
    /\ input' = [op |-> "store", request |-> request]
    /\ output' = IF schedulerRef = <<>> THEN Undef
                 ELSE resultOf(schedulers[schedulerRef[1]], request)
    /\ pc' = "forwarded"
    /\ UNCHANGED <<slotVars, noiseVars, busVars, loopVars, clock, history,
                   schedulerRef, unsubscribeState, unsubscribeTick, detaches>>

\* scheduler.play(), .pause(), .toggle() or .setSpeed(multiplier), called on
\* the scheduler itself
SchedulerAction ==
  \E name \in SchedulerNames, request \in SchedulerCalls :
    /\ schedulers' = [allCalled(schedulers) EXCEPT ![name] = perform(@, request, clock)]
    /\ snapshot' = received(snapshot, schedulers')
    /\ input' = [op |-> "scheduler", scheduler |-> name, request |-> request]
    /\ output' = resultOf(schedulers[name], request)
    /\ pc' = "called"
    /\ UNCHANGED <<slotVars, noiseVars, busVars, loopVars, clock, history,
                   schedulerRef, unsubscribeState, unsubscribeTick, detaches>>

\* the timer of a scheduler fires
SchedulerTimerFires ==
  \E name \in SchedulerNames :
    /\ schedulers[name].timerHandle = "timer"
    /\ schedulers' = [allCalled(schedulers) EXCEPT ![name] = timerCallback(@, clock)]
    /\ snapshot' = received(snapshot, schedulers')
    /\ input' = [op |-> "timer", scheduler |-> name]
    /\ output' = Undef
    /\ pc' = "fired"
    /\ UNCHANGED <<slotVars, noiseVars, busVars, loopVars, clock, history,
                   schedulerRef, unsubscribeState, unsubscribeTick, detaches>>

\* time passes: one fixed delta of scheduler A
StoreClockAdvances ==
  /\ clock + DEFAULT_FIXED_DELTA_MS <= MaxStoreClock
  /\ clock' = clock + DEFAULT_FIXED_DELTA_MS
  /\ schedulers' = allCalled(schedulers)
  /\ input' = [op |-> "advance"]
  /\ output' = Undef
  /\ pc' = "advanced"
  /\ UNCHANGED <<slotVars, noiseVars, busVars, loopVars, history, storeVars>>

NextStore ==
  \/ HydrateFromScheduler
  \/ Detach
  \/ Reset
  \/ StoreAction
  \/ SchedulerAction
  \/ SchedulerTimerFires
  \/ StoreClockAdvances

SpecStore == InitStore /\ [][NextStore]_vars

---------------------------------------------------------------------------
(* Claims about the simulation store, checked under SpecStore *)

\* the scheduler the store is attached to
Attached == schedulers[schedulerRef[1]]

\* the last tick the attached scheduler emitted during the last call
LastTick == ticksOf(Attached)[Len(ticksOf(Attached))].payload

\* the store shows the state and the last tick of the scheduler it is
\* attached to, and the default snapshot when it is attached to none
Mirrors ==
  /\ schedulerRef # <<>> =>
       /\ snapshot.running = getState(Attached).running
       /\ snapshot.speed = getState(Attached).speed
       /\ ticksOf(Attached) # <<>> =>
            /\ snapshot.lastTick = <<LastTick>>
            /\ snapshot.frame = LastTick.frame
            /\ snapshot.elapsedMs = LastTick.elapsedMs
  /\ schedulerRef = <<>> => snapshot = createDefaultSnapshot

\* C27: while the store is attached by hydrateFromScheduler, after every
\* change of the scheduler's state its running and speed equal
\* scheduler.getState(), after every tick its frame, elapsedMs and lastTick
\* are those of the tick, and play, pause, toggle and setSpeed of the store
\* do to the scheduler what the scheduler's own methods do; once detached or
\* reset the store holds the default snapshot, whatever the schedulers do.
C27_StoreMirrorsScheduler ==
  [][/\ Mirrors'
     /\ pc' = "forwarded" /\ schedulerRef # <<>> =>
          schedulers'[schedulerRef[1]] = perform(called(Attached), input'.request, clock)]_vars

\* the store's listeners are subscribed to the scheduler named
ListensTo(name) ==
  \/ \E i \in DOMAIN schedulers[name].bus["state"] : schedulers[name].bus["state"][i] = "storeState"
  \/ \E i \in DOMAIN schedulers[name].bus["tick"] : schedulers[name].bus["tick"][i] = "storeTick"

\* C30: the store attached to a scheduler stays attached to it when the
\* detach function returned by hydrateFromScheduler of another scheduler is
\* called: the reference and the snapshot are left as they were; and the
\* store listens to no scheduler other than the one it is attached to.
C30_DetachOfEarlierHydrateIgnored ==
  [][/\ pc' = "detached" /\ schedulerRef # <<>> /\ input'.scheduler # schedulerRef[1] =>
          /\ schedulerRef' = schedulerRef
          /\ snapshot' = snapshot
          /\ ListensTo(schedulerRef[1])'
     /\ \A name \in SchedulerNames : ListensTo(name)' => schedulerRef' = <<name>>]_vars

---------------------------------------------------------------------------
(* A claim about the slot store, checked under Spec *)

\* C28: with a working store, a loadPlanetSaveSlot made right after a
\* savePlanetStateToSlot of the same slot returns the record the save
\* returned, label, createdAt and updatedAt included, whatever the slot held
\* before and whatever label and timestamp were given.
C28_LoadReturnsWhatSaveReturned ==
  [][/\ pc = "saved" /\ ~IsThrow(output) /\ ~storage.noop
     /\ pc' = "loaded" /\ input'.slot = input.slot
     => output' = output]_vars

---------------------------------------------------------------------------
(* The render loop: render/loop.ts *)

\* A loop is the record of its locals frameId and previousTime (<<>> for
\* null), of the frame requests the window holds for it, and of the number
\* of requests made so far; window.requestAnimationFrame returns that number
\* as the id of the request.

\* frameId = window.requestAnimationFrame(loop)
requestAnimationFrame(render) ==
  [render EXCEPT !.frameId = <<render.requested + 1>>,
                 !.requests = @ \cup {render.requested + 1},
                 !.requested = @ + 1]

\* window.cancelAnimationFrame(id): a request that has run is not held
cancelAnimationFrame(render, id) == [render EXCEPT !.requests = @ \ {id}]

\* the window takes a request it holds in order to call it
taken(render, id) == [render EXCEPT !.requests = @ \ {id}]

start(render) ==
  IF render.frameId # <<>> THEN render
  ELSE requestAnimationFrame([render EXCEPT !.previousTime = <<>>])

stop(render) ==
  IF render.frameId = <<>> THEN render
  ELSE [cancelAnimationFrame(render, render.frameId[1]) EXCEPT !.frameId = <<>>,
                                                               !.previousTime = <<>>]

isRunning(render) == render.frameId # <<>>

\* what the step callback does to the loop that calls it
StepBehaviours == {"renders", "stops", "restarts"}

\* step(delta)
stepCallback(render, behaviour) ==
  IF behaviour = "stops" THEN stop(render)
  ELSE IF behaviour = "restarts" THEN start(stop(render))
  ELSE render

\* the delta loop(time) passes to step, in milliseconds
deltaOf(render, time) ==
  IF render.previousTime = <<>> THEN 0 ELSE time - render.previousTime[1]

\* loop(time), called by the window for a request it held
renderLoop(render, time, behaviour) ==
  requestAnimationFrame(stepCallback([render EXCEPT !.previousTime = <<time>>], behaviour))

\* createRenderLoop(step)
createRenderLoop == [frameId |-> <<>>, previousTime |-> <<>>, requests |-> {}, requested |-> 0]

---------------------------------------------------------------------------
(* The specification of one render loop and the window that runs it *)

\* the frame requests made are bounded
MaxRequests == 5

\* the time between two callbacks of the window: none within one frame
FrameTimes == {0, 16}

\* the loop as the variables hold it
rendering ==
  [frameId |-> frameId,
   previousTime |-> previousTime,
   requests |-> requests,
   requested |-> frames.requested]

\* frames after a call that left the loop as given: stopped tells that
\* stop() has been called and start() has not been called since, steps
\* counts the calls of step
framed(render, time, stopped, steps) ==
  [requested |-> render.requested, time |-> time, stopped |-> stopped, steps |-> steps]

InitLoop ==
  /\ frameId = createRenderLoop.frameId
  /\ previousTime = createRenderLoop.previousTime
  /\ requests = createRenderLoop.requests
  /\ frames = framed(createRenderLoop, 0, FALSE, 0)
  /\ input = Undef
  /\ output = Undef
  /\ pc = "created"
  /\ storage = <<>>
  /\ saved = Undef
  /\ writes = 0
  /\ accesses = <<>>
  /\ P = <<>>
  /\ BusIdle
  /\ SchedulerIdle
  /\ StoreIdle

\* loop.start()
Start ==
  /\ frames.requested < MaxRequests
  /\ frameId' = start(rendering).frameId
  /\ previousTime' = start(rendering).previousTime
  /\ requests' = start(rendering).requests
  /\ frames' = framed(start(rendering), frames.time, FALSE, frames.steps)
  /\ input' = [op |-> "start"]
  /\ output' = Undef
  /\ pc' = "started"
  /\ UNCHANGED <<slotVars, noiseVars, busVars, schedulerVars, storeVars>>

\* loop.stop()
Stop ==
  /\ frameId' = stop(rendering).frameId
  /\ previousTime' = stop(rendering).previousTime
  /\ requests' = stop(rendering).requests
  /\ frames' = framed(stop(rendering), frames.time, TRUE, frames.steps)
  /\ input' = [op |-> "stop"]
  /\ output' = Undef
  /\ pc' = "stopped"
  /\ UNCHANGED <<slotVars, noiseVars, busVars, schedulerVars, storeVars>>

\* loop.isRunning()
IsRunning ==
  /\ input' = [op |-> "isRunning"]
  /\ output' = Bool(isRunning(rendering))
  /\ pc' = "asked"
  /\ UNCHANGED <<slotVars, noiseVars, busVars, schedulerVars, storeVars, loopVars>>

\* the window runs a frame request it holds; the step callback renders, or
\* calls stop(), or calls stop() and start()
Frame ==
  \E id \in requests, elapsed \in FrameTimes, behaviour \in StepBehaviours :
    /\ frames.requested + 1 < MaxRequests
    /\ frameId' = renderLoop(taken(rendering, id), frames.time + elapsed, behaviour).frameId
    /\ previousTime' = renderLoop(taken(rendering, id), frames.time + elapsed, behaviour).previousTime
    /\ requests' = renderLoop(taken(rendering, id), frames.time + elapsed, behaviour).requests
    /\ frames' = framed(renderLoop(taken(rendering, id), frames.time + elapsed, behaviour),
                        frames.time + elapsed,
                        IF behaviour = "renders" THEN frames.stopped ELSE behaviour = "stops",
                        frames.steps + 1)
    /\ input' = [op |-> "frame", id |-> id, behaviour |-> behaviour,
                 delta |-> deltaOf(rendering, frames.time + elapsed)]
    /\ output' = Undef
    /\ pc' = "rendered"
    /\ UNCHANGED <<slotVars, noiseVars, busVars, schedulerVars, storeVars>>

NextLoop == Start \/ Stop \/ IsRunning \/ Frame

SpecLoop == InitLoop /\ [][NextLoop]_vars

---------------------------------------------------------------------------
(* A claim about the render loop, checked under SpecLoop *)

\* C29: once stop() has returned, also when it was called inside step, and
\* until start() is called, isRunning() is false and the window holds no
\* frame request of the loop, so step is not called again; and the window
\* never holds more than one frame request of the loop.
C29_StopStopsAndOneRequest ==
  /\ frames.stopped =>
       /\ ~isRunning(rendering)
       /\ requests = {}
  /\ Cardinality(requests) <= 1

====
